---- MODULE Spec2Model ----
(***************************************************************************)
(* NohLang interpreter (noh_interpreter.py): the interpretation engine as  *)
(* a state machine.  One TLA+ step is one step of the interpreter: one     *)
(* statement dispatched by execute_lines, one loop-guard evaluation, one   *)
(* block return, or one frame of exception propagation.                    *)
(*                                                                         *)
(* Conventions.                                                            *)
(*  - A line is a record whose field k names the statement pattern the     *)
(*    cleaned line matches; the captured groups are the other fields.      *)
(*  - An expression is a record [lead, tree]: tree is the AST that         *)
(*    ast.parse gives for the stripped text, lead says that the captured   *)
(*    text starts with white space.                                        *)
(*  - Python dict objects (scope frames) live in heap and are named by     *)
(*    their index, so that aliasing between the interpreter's scope stack  *)
(*    and a Function's closure is explicit.                                *)
(*  - List and dict values are held by value in the frame that binds them; *)
(*    the programs bind no list or dict object under two names.            *)
(*  - Diagnostics are ASCII renderings of the Korean messages; out holds   *)
(*    what eungdi logs at info and error level (not the debug-level dump   *)
(*    of the scopes that follows each diagnostic in debug mode).           *)
(***************************************************************************)
EXTENDS Integers, Sequences, FiniteSets, TLC

VARIABLES
    prog,          \* the program text given to interpret_program (lines)
    scopes,        \* Interpreter.scopes: sequence of frame ids, index 1 = builtins
    heap,          \* the dict objects: frame id -> (name -> value)
    out,           \* the logging sink: sequence of diagnostics
    current_line,  \* Interpreter.current_line (0 for None)
    debug,         \* Interpreter.debug
    fast,          \* Interpreter.fast
    AST_CACHE,     \* module-level AST_CACHE (keys = stripped expression texts)
    stack,         \* the Python call stack of the engine (activation records)
    sig,           \* the exception in flight, [t |-> "none"] when there is none
    ret,           \* the values returned by Function.call so far, in order
    status,        \* "idle", "running", "done" (interpret_program returned), "exited"
    raw_line,      \* the argument of remove_comments: a sequence of characters
    cleaned,       \* [done, text]: what remove_comments returned for raw_line
    files,         \* the file system: file name -> the JSON object written to it
    stdin,         \* the lines (and interrupts) that input() has still to deliver
    argv,          \* args of main: [test, debug, fast, repl, filename, isatty]
    stamp          \* the identity that the next dict object created gets

vars == <<prog, scopes, heap, out, current_line, debug, fast, AST_CACHE,
          stack, sig, ret, status, raw_line, cleaned, files, stdin, argv, stamp>>

-----------------------------------------------------------------------------
(* Bounds of the model *)

MaxOut == 100
MaxHeap == 100
\* the number of iterations of every loop of the programs
Iterations == 2
\* the longest line given to remove_comments
MaxLine == 5
\* the most inputs that stdin holds for the REPL
MaxInput == 3

-----------------------------------------------------------------------------
(* Values *)

\* F applied to v: binds the value of an expression that is used several times
With(v, F(_)) == F(v)

NoneV == [t |-> "none"]
IntV(n) == [t |-> "int", n |-> n]
BoolV(b) == [t |-> "bool", b |-> b]
StrV(s) == [t |-> "str", s |-> s]
ListV(items) == [t |-> "list", items |-> items]
\* a dict object: tag is its identity (<<>> until evaluate_expression hands it out)
DictV(keys, vals) == [t |-> "dict", tag |-> <<>>, keys |-> keys, vals |-> vals]
BuiltinV(id) == [t |-> "builtin", id |-> id]
Function(params, block, closure) ==
    [t |-> "func", params |-> params, block |-> block, closure |-> closure]

IsNum(v) == v.t \in {"int", "bool"}
NumOf(v) == IF v.t = "int" THEN v.n ELSE IF v.b THEN 1 ELSE 0

\* a truth value that takes None for true
TruthyNone(v) ==
    CASE v.t = "none" -> TRUE
      [] v.t = "int" -> v.n # 0
      [] v.t = "bool" -> v.b
      [] v.t = "str" -> v.s # ""
      [] v.t = "list" -> Len(v.items) > 0
      [] v.t = "dict" -> Len(v.keys) > 0
      [] OTHER -> TRUE

\* Python truthiness, as used by `if value:` and all()/any()
Truthy(v) ==
    CASE v.t = "none" -> FALSE
      [] v.t = "int" -> v.n # 0
      [] v.t = "bool" -> v.b
      [] v.t = "str" -> v.s # ""
      [] v.t = "list" -> Len(v.items) > 0
      [] v.t = "dict" -> Len(v.keys) > 0
      [] OTHER -> TRUE

\* hasattr(value, '__iter__')
Iterable(v) == v.t \in {"list", "str", "dict"}

\* hashable values (keys of a dict, members of a set)
Hashable(v) == v.t \notin {"list", "dict"}

Digit == <<"0", "1", "2", "3", "4", "5", "6", "7", "8", "9">>

RECURSIVE NatStr(_)
NatStr(n) == IF n < 10 THEN Digit[n + 1] ELSE NatStr(n \div 10) \o Digit[(n % 10) + 1]

IntStr(n) == IF n < 0 THEN "-" \o NatStr(0 - n) ELSE NatStr(n)

RECURSIVE JoinStr(_, _)
JoinStr(ss, sep) ==
    IF Len(ss) = 0 THEN ""
    ELSE IF Len(ss) = 1 THEN ss[1]
    ELSE ss[1] \o sep \o JoinStr(Tail(ss), sep)

\* str(value) / repr(value)
RECURSIVE Repr(_)
Repr(v) ==
    CASE v.t = "none" -> "None"
      [] v.t = "int" -> IntStr(v.n)
      [] v.t = "bool" -> (IF v.b THEN "True" ELSE "False")
      [] v.t = "str" -> "'" \o v.s \o "'"
      [] v.t = "list" -> "[" \o JoinStr([i \in 1..Len(v.items) |-> Repr(v.items[i])], ", ") \o "]"
      [] v.t = "dict" ->
            "{" \o JoinStr([i \in 1..Len(v.keys) |->
                              Repr(v.keys[i]) \o ": " \o Repr(v.vals[i])], ", ") \o "}"
      [] v.t = "builtin" -> "<built-in function " \o v.id \o ">"
      [] v.t = "func" -> "Function(" \o JoinStr(v.params, ", ") \o ")"

Str(v) == IF v.t = "str" THEN v.s ELSE Repr(v)

-----------------------------------------------------------------------------
(* Expressions: the AST nodes of ast.parse(..., mode='eval') *)

Constant(v) == [k |-> "Constant", value |-> v]
Name(id) == [k |-> "Name", id |-> id]
BinOp(left, op, right) == [k |-> "BinOp", left |-> left, op |-> op, right |-> right]
UnaryOp(op, operand) == [k |-> "UnaryOp", op |-> op, operand |-> operand]
BoolOp(op, values) == [k |-> "BoolOp", op |-> op, values |-> values]
Compare(left, ops, comparators) ==
    [k |-> "Compare", left |-> left, ops |-> ops, comparators |-> comparators]
ListNode(elts) == [k |-> "List", elts |-> elts]
DictNode(keys, values) == [k |-> "Dict", keys |-> keys, values |-> values]
CallNode(func) == [k |-> "Call", func |-> func]
AttributeNode(value, attr) == [k |-> "Attribute", value |-> value, attr |-> attr]
\* text that ast.parse rejects (for example an augmented assignment)
NoParse == [k |-> "SyntaxError"]

\* an expression as a pattern captures it
Expr(tree) == [lead |-> FALSE, tree |-> tree]
LeadExpr(tree) == [lead |-> TRUE, tree |-> tree]

Ok(v) == [ok |-> TRUE, val |-> v]
Raise(msg) == [ok |-> FALSE, msg |-> msg]

allowed_operators == {"Add", "Sub", "Mult"}
allowed_unary_operators == {"UAdd", "USub", "Not"}
allowed_compare_ops == {"Eq", "NotEq", "Lt", "LtE", "Gt", "GtE"}

\* operator_func(left, right) of a whitelisted binary operator
ApplyBin(op, l, r) ==
    IF IsNum(l) /\ IsNum(r) THEN
        Ok(IntV(CASE op = "Add" -> NumOf(l) + NumOf(r)
                  [] op = "Sub" -> NumOf(l) - NumOf(r)
                  [] op = "Mult" -> NumOf(l) * NumOf(r)))
    ELSE IF op = "Add" /\ l.t = "str" /\ r.t = "str" THEN Ok(StrV(l.s \o r.s))
    ELSE IF op = "Add" /\ l.t = "list" /\ r.t = "list" THEN Ok(ListV(l.items \o r.items))
    ELSE Raise("unsupported operand type(s)")

ApplyUnary(op, v) ==
    IF op = "Not" THEN Ok(BoolV(~Truthy(v)))
    ELSE IF IsNum(v) THEN Ok(IntV(IF op = "USub" THEN 0 - NumOf(v) ELSE NumOf(v)))
    ELSE Raise("bad operand type for unary operator")

\* the value without the identities of the dict objects in it
RECURSIVE Untag(_)
Untag(v) ==
    CASE v.t = "list" -> [v EXCEPT !.items = [i \in 1..Len(v.items) |-> Untag(v.items[i])]]
      [] v.t = "dict" -> [v EXCEPT !.tag = <<>>,
                                   !.vals = [i \in 1..Len(v.vals) |-> Untag(v.vals[i])]]
      [] OTHER -> v

\* Python == on the modelled values (True == 1; dicts are equal by content)
PyEq(l, r) == IF IsNum(l) /\ IsNum(r) THEN NumOf(l) = NumOf(r) ELSE Untag(l) = Untag(r)

ApplyCompare(op, l, r) ==
    IF op = "Eq" THEN Ok(BoolV(PyEq(l, r)))
    ELSE IF op = "NotEq" THEN Ok(BoolV(~PyEq(l, r)))
    ELSE IF IsNum(l) /\ IsNum(r) THEN
        Ok(BoolV(CASE op = "Lt" -> NumOf(l) < NumOf(r)
                   [] op = "LtE" -> NumOf(l) <= NumOf(r)
                   [] op = "Gt" -> NumOf(l) > NumOf(r)
                   [] op = "GtE" -> NumOf(l) >= NumOf(r)))
    ELSE Raise("comparison not supported between instances")

\* d[key] = value on a dict held as parallel sequences of keys and values
DictSet(d, key, value) ==
    IF \E i \in 1..Len(d.keys) : PyEq(d.keys[i], key)
    THEN [d EXCEPT !.vals[CHOOSE i \in 1..Len(d.keys) : PyEq(d.keys[i], key)] = value]
    ELSE [d EXCEPT !.keys = Append(@, key), !.vals = Append(@, value)]

RECURSIVE eval_node(_, _)
RECURSIVE EvalSeq(_, _)
RECURSIVE EvalDict(_, _, _, _)
RECURSIVE EvalBool(_, _, _)
RECURSIVE EvalChain(_, _, _, _)

\* [_eval_node(e, variables) for e in elts]: the values, or the first exception
EvalSeq(elts, variables) ==
    IF Len(elts) = 0 THEN Ok(<<>>)
    ELSE LET h == eval_node(elts[1], variables) IN
         IF ~h.ok THEN h
         ELSE LET r == EvalSeq(Tail(elts), variables) IN
              IF ~r.ok THEN r ELSE Ok(<<h.val>> \o r.val)

\* {_eval_node(k): _eval_node(v) for k, v in zip(keys, values)}, d the dict so far
EvalDict(keys, values, d, variables) ==
    IF Len(keys) = 0 \/ Len(values) = 0 THEN Ok(d)
    ELSE LET key == eval_node(keys[1], variables) IN
         IF ~key.ok THEN key
         ELSE LET value == eval_node(values[1], variables) IN
              IF ~value.ok THEN value
              ELSE IF ~Hashable(key.val) THEN Raise("unhashable type")
              ELSE EvalDict(Tail(keys), Tail(values), DictSet(d, key.val, value.val),
                            variables)

\* all(...) for stop = FALSE, any(...) for stop = TRUE, over a lazy generator
EvalBool(values, stop, variables) ==
    IF Len(values) = 0 THEN Ok(BoolV(~stop))
    ELSE LET h == eval_node(values[1], variables) IN
         IF ~h.ok THEN h
         ELSE IF Truthy(h.val) = stop THEN Ok(BoolV(stop))
         ELSE EvalBool(Tail(values), stop, variables)

\* the loop over zip(node.ops, node.comparators)
EvalChain(left, ops, comparators, variables) ==
    IF Len(ops) = 0 \/ Len(comparators) = 0 THEN Ok(BoolV(TRUE))
    ELSE LET comp == eval_node(comparators[1], variables) IN
         IF ~comp.ok THEN comp
         ELSE IF ops[1] \notin allowed_compare_ops
              THEN Raise("unsupported comparison operator")
         ELSE LET c == ApplyCompare(ops[1], left, comp.val) IN
              IF ~c.ok THEN c
              ELSE IF ~Truthy(c.val) THEN Ok(BoolV(FALSE))
              ELSE EvalChain(comp.val, Tail(ops), Tail(comparators), variables)

eval_node(node, variables) ==
    CASE node.k = "Constant" -> Ok(node.value)
      [] node.k = "BinOp" ->
            LET left == eval_node(node.left, variables) IN
            IF ~left.ok THEN left
            ELSE LET right == eval_node(node.right, variables) IN
                 IF ~right.ok THEN right
                 ELSE IF node.op \notin allowed_operators
                      THEN Raise("unsupported binary operator")
                 ELSE ApplyBin(node.op, left.val, right.val)
      [] node.k = "UnaryOp" ->
            LET operand == eval_node(node.operand, variables) IN
            IF ~operand.ok THEN operand
            ELSE IF node.op \notin allowed_unary_operators
                 THEN Raise("unsupported unary operator")
            ELSE ApplyUnary(node.op, operand.val)
      [] node.k = "BoolOp" ->
            IF node.op = "And" THEN EvalBool(node.values, FALSE, variables)
            ELSE IF node.op = "Or" THEN EvalBool(node.values, TRUE, variables)
            ELSE Raise("unsupported boolean operator")
      [] node.k = "Compare" ->
            LET left == eval_node(node.left, variables) IN
            IF ~left.ok THEN left
            ELSE EvalChain(left.val, node.ops, node.comparators, variables)
      [] node.k = "List" ->
            LET r == EvalSeq(node.elts, variables) IN
            IF ~r.ok THEN r ELSE Ok(ListV(r.val))
      [] node.k = "Dict" -> EvalDict(node.keys, node.values, DictV(<<>>, <<>>), variables)
      [] node.k = "Name" ->
            IF node.id \in DOMAIN variables THEN
                IF variables[node.id] = NoneV
                THEN Raise("variable '" \o node.id \o "' has no value assigned")
                ELSE Ok(variables[node.id])
            ELSE Raise("variable '" \o node.id \o "' is not declared")
      [] OTHER -> Raise("unsupported expression component")

\* safe_eval: [res |-> value or exception, cache |-> AST_CACHE afterwards]
\* `except Exception as e: raise ValueError(...)` around the evaluation
Unsafe(r) == IF r.ok THEN r ELSE Raise("unsafe expression: " \o r.msg)

safe_eval(expression, variables, cache) ==
    IF expression.tree \in cache THEN
        [res |-> Unsafe(eval_node(expression.tree, variables)), cache |-> cache]
    ELSE IF expression.lead \/ expression.tree = NoParse THEN
        [res |-> Unsafe(Raise(IF expression.lead THEN "unexpected indent"
                              ELSE "invalid syntax")),
         cache |-> cache]
    ELSE
        [res |-> Unsafe(eval_node(expression.tree, variables)),
         cache |-> cache \cup {expression.tree}]

-----------------------------------------------------------------------------
(* The interpreter object: the fields that the methods read and write *)

Self ==
    [scopes |-> scopes, heap |-> heap, out |-> out, current_line |-> current_line,
     debug |-> debug, fast |-> fast, cache |-> AST_CACHE, files |-> files,
     stamp |-> stamp]

EmptyFrame == [n \in {} |-> NoneV]

\* no file written yet
NoFiles == [f \in {} |-> EmptyFrame]

\* args.filename: None, or the text of the argument as a sequence of parts
NoFilename == [given |-> FALSE, name |-> <<>>]
Filename(name) == [given |-> TRUE, name |-> name]
\* parse_args() of a command line with no argument
NoArgs == [test |-> FALSE, debug |-> FALSE, fast |-> FALSE, repl |-> FALSE,
           filename |-> NoFilename, isatty |-> FALSE]

Bind(frame, name, v) ==
    [n \in (DOMAIN frame) \cup {name} |-> IF n = name THEN v ELSE frame[n]]

Unbind(frame, name) == [n \in (DOMAIN frame) \ {name} |-> frame[n]]

\* Interpreter.__init__: the names put into scopes[0]
BuiltinNames ==
    {"sqrt", "sin", "cos", "tan", "max", "min", "abs", "round", "int", "str",
     "len", "log", "exp", "now_time", "now_date", "JSON_loads", "JSON_dumps"}

BuiltinFrame == [n \in BuiltinNames |-> BuiltinV(n)]

\* eungdi: one diagnostic with the current line number as prefix
eungdi(s, message, error) ==
    IF s.fast /\ ~error THEN s
    ELSE [s EXCEPT !.out = Append(@, [line |-> s.current_line, err |-> error,
                                       msg |-> message])]

current_scope(s) == s.scopes[Len(s.scopes)]

push_scope(s) ==
    [s EXCEPT !.heap = Append(@, EmptyFrame),
              !.scopes = Append(@, Len(s.heap) + 1)]

\* the pop without the check of the length
pop_scopeAlways(s) == [s EXCEPT !.scopes = SubSeq(@, 1, Len(@) - 1)]

pop_scope(s) ==
    IF Len(s.scopes) > 1
    THEN [s EXCEPT !.scopes = SubSeq(@, 1, Len(@) - 1)]
    ELSE eungdi(s, "error: the global scope cannot be removed", TRUE)

\* indexes of the frames of the stack that hold the name
Holders(s, var_name) ==
    {i \in 1..Len(s.scopes) : var_name \in DOMAIN s.heap[s.scopes[i]]}

\* the outermost frame that holds the name
NearestOuter(s, var_name) ==
    s.scopes[CHOOSE i \in Holders(s, var_name) : \A j \in Holders(s, var_name) : i <= j]

\* the frame found by `for scope in reversed(self.scopes)`
Nearest(s, var_name) ==
    s.scopes[CHOOSE i \in Holders(s, var_name) : \A j \in Holders(s, var_name) : j <= i]

\* dict(ChainMap(*self.scopes[::-1]))
get_combined_scope(s) ==
    [n \in UNION {DOMAIN s.heap[s.scopes[i]] : i \in 1..Len(s.scopes)} |->
        s.heap[Nearest(s, n)][n]]

\* the declaration refused when any frame of the stack holds the name
declare_variableAnyFrame(s, var_name) ==
    IF Holders(s, var_name) # {}
    THEN eungdi(s, "error: variable \"" \o var_name \o "\" is already declared", TRUE)
    ELSE [s EXCEPT !.heap[current_scope(s)] = Bind(@, var_name, NoneV)]

declare_variable(s, var_name) ==
    IF var_name \in DOMAIN s.heap[current_scope(s)]
    THEN eungdi(s, "error: variable \"" \o var_name \o "\" is already declared", TRUE)
    ELSE [s EXCEPT !.heap[current_scope(s)] = Bind(@, var_name, NoneV)]

assign_variable(s, var_name, value) ==
    IF Holders(s, var_name) # {}
    THEN [s EXCEPT !.heap[Nearest(s, var_name)] = Bind(@, var_name, value)]
    ELSE eungdi(s, "error: variable \"" \o var_name \o "\" is not declared", TRUE)

\* get_variable: [s |-> the interpreter afterwards, val |-> the value returned]
get_variable(s, var_name) ==
    IF Holders(s, var_name) # {}
    THEN [s |-> s, val |-> s.heap[Nearest(s, var_name)][var_name]]
    ELSE [s |-> eungdi(s, "error: variable \"" \o var_name \o "\" is not declared", TRUE),
          val |-> NoneV]

\* an evaluation that leaves a mark of the failure in the current frame
evaluate_expressionMarking(s, expression) ==
    With(safe_eval(expression, get_combined_scope(s), s.cache), LAMBDA r :
        IF r.res.ok THEN [s |-> [s EXCEPT !.cache = r.cache], val |-> r.res.val]
        ELSE [s |-> eungdi([s EXCEPT !.cache = r.cache,
                                     !.heap[current_scope(s)] = Bind(@, "_", NoneV)],
                           "error: expression evaluation failed - " \o r.res.msg, TRUE),
              val |-> NoneV])

\* the dict objects that the evaluation created get the identities n, n + 1, ...:
\* [val |-> the value, next |-> the first identity not given]
RECURSIVE StampVal(_, _)
RECURSIVE StampSeq(_, _)
StampVal(v, n) ==
    CASE v.t = "list" ->
            With(StampSeq(v.items, n), LAMBDA r :
                [val |-> [v EXCEPT !.items = r.vals], next |-> r.next])
      [] v.t = "dict" /\ v.tag = <<>> ->
            With(StampSeq(v.vals, n + 1), LAMBDA r :
                [val |-> [v EXCEPT !.tag = <<n>>, !.vals = r.vals], next |-> r.next])
      [] OTHER -> [val |-> v, next |-> n]
StampSeq(items, n) ==
    IF Len(items) = 0 THEN [vals |-> <<>>, next |-> n]
    ELSE With(StampVal(items[1], n), LAMBDA h :
         With(StampSeq(Tail(items), h.next), LAMBDA t :
            [vals |-> <<h.val>> \o t.vals, next |-> t.next]))

\* evaluate_expression: [s, val]; val is None after a reported error
evaluate_expression(s, expression) ==
    With(safe_eval(expression, get_combined_scope(s), s.cache), LAMBDA r :
        IF r.res.ok
        THEN With(StampVal(r.res.val, s.stamp), LAMBDA v :
                [s |-> [s EXCEPT !.cache = r.cache, !.stamp = v.next], val |-> v.val])
        ELSE [s |-> eungdi([s EXCEPT !.cache = r.cache],
                           "error: expression evaluation failed - " \o r.res.msg, TRUE),
              val |-> NoneV])

\* [self.evaluate_expression(arg) for arg in args_expr]: [s, vals]
RECURSIVE EvalArgs(_, _, _)
EvalArgs(s, args_expr, vals) ==
    IF Len(args_expr) = 0 THEN [s |-> s, vals |-> vals]
    ELSE With(evaluate_expression(s, args_expr[1]), LAMBDA h :
            EvalArgs(h.s, Tail(args_expr), Append(vals, h.val)))

-----------------------------------------------------------------------------
(* copy.deepcopy(self.scopes): every dict reachable from the stack is      *)
(* copied once (deepcopy's memo), also the closures of Function objects    *)
(* bound in those dicts.                                                   *)

RECURSIVE FramesOf(_)
FramesOf(v) ==
    CASE v.t = "func" -> {v.closure[i] : i \in 1..Len(v.closure)}
      [] v.t = "list" -> UNION {FramesOf(v.items[i]) : i \in 1..Len(v.items)}
      [] v.t = "dict" -> UNION {FramesOf(v.vals[i]) : i \in 1..Len(v.vals)}
      [] OTHER -> {}

FrameRefs(h, id) == UNION {FramesOf(h[id][n]) : n \in DOMAIN h[id]}

RECURSIVE Reach(_, _)
Reach(h, ids) ==
    LET more == ids \cup UNION {FrameRefs(h, id) : id \in ids}
    IN  IF more = ids THEN ids ELSE Reach(h, more)

\* the id of the copy of frame id: copies are appended to the heap in id order
CopyId(h, R, id) == Len(h) + Cardinality({r \in R : r <= id})

RECURSIVE CopyVal(_, _, _)
CopyVal(h, R, v) ==
    CASE v.t = "func" ->
            [v EXCEPT !.closure = [i \in 1..Len(v.closure) |-> CopyId(h, R, v.closure[i])]]
      [] v.t = "list" ->
            [v EXCEPT !.items = [i \in 1..Len(v.items) |-> CopyVal(h, R, v.items[i])]]
      [] v.t = "dict" ->
            [v EXCEPT !.tag = IF @ = <<>> THEN @ ELSE Append(@, Len(h)),
                      !.vals = [i \in 1..Len(v.vals) |-> CopyVal(h, R, v.vals[i])]]
      [] OTHER -> v

\* the frame whose copy gets id k
Original(h, R, k) == CHOOSE r \in R : CopyId(h, R, r) = k

\* a copy of the list only: the frames stay shared
deepcopyShallow(h, sc) == [heap |-> h, scopes |-> sc]
\* [heap |-> the heap with the copies, scopes |-> the copied stack]
deepcopy(h, sc) ==
    With(Reach(h, {sc[i] : i \in 1..Len(sc)}), LAMBDA R :
        [heap |-> [k \in 1..(Len(h) + Cardinality(R)) |->
                     IF k <= Len(h) THEN h[k]
                     ELSE [n \in DOMAIN h[Original(h, R, k)] |->
                             CopyVal(h, R, h[Original(h, R, k)][n])]],
         scopes |-> [i \in 1..Len(sc) |-> CopyId(h, R, sc[i])]])

-----------------------------------------------------------------------------
(* Lines: one constructor per statement pattern of Interpreter.__init__ *)

PrintL(text) == [k |-> "print", text |-> text]
DeclareL(x) == [k |-> "declare", x |-> x]
AssignL(x, e) == [k |-> "assign", x |-> x, e |-> e]
OutputL(x) == [k |-> "output", x |-> x]
DeleteL(x) == [k |-> "delete_var", x |-> x]
SortL(x) == [k |-> "list_sort", x |-> x]
DictAddL(x, key, value) == [k |-> "dict_add", x |-> x, key |-> key, value |-> value]
ResetL == [k |-> "reset"]
ExitL == [k |-> "exit"]
SaveL(filename) == [k |-> "save_vars", filename |-> filename]
IfL(e) == [k |-> "if", e |-> e]
ElseL == [k |-> "else"]
EndIfL == [k |-> "end_if"]
WhileL(e) == [k |-> "while", e |-> e]
EndWhileL == [k |-> "end_while"]
ForL(x, e) == [k |-> "for", x |-> x, e |-> e]
EndForL == [k |-> "end_for"]
FuncDefL(f, params) == [k |-> "func_def", f |-> f, params |-> params]
EndFuncL == [k |-> "end_func"]
FuncCallL(f, args) == [k |-> "func_call", f |-> f, args |-> args]
BreakL == [k |-> "break"]
ContinueL == [k |-> "continue"]
ReturnL(e) == [k |-> "return", has |-> TRUE, e |-> e]
ReturnNoneL == [k |-> "return", has |-> FALSE]
\* an empty or comment-only line
BlankL == [k |-> "blank"]
\* a line that matches no pattern
UnknownL(text) == [k |-> "unknown", text |-> text]

-----------------------------------------------------------------------------
(* Exceptions in flight *)

NoSig == [t |-> "none"]
BreakException == [t |-> "break"]
ContinueException == [t |-> "continue"]
\* a ReturnException that loses its value
ReturnExceptionNoValue(value) == [t |-> "return", value |-> NoneV]
ReturnException(value) == [t |-> "return", value |-> value]
PyError(msg) == [t |-> "error", msg |-> msg]
\* sys.exit(0)
SystemExit == [t |-> "exit", code |-> 0]

\* str(e) of an exception that interpret_program catches
ExcStr(e) ==
    CASE e.t = "return" -> Str(e.value)
      [] e.t = "error" -> e.msg
      [] OTHER -> ""

-----------------------------------------------------------------------------
(* Block extraction: the scanning loops of process_if, process_while,      *)
(* process_for and process_func_def.  i is the 0-based index into lines.   *)

\* an extraction that takes the first else and the first end-if met
RECURSIVE ScanIfFlat(_, _, _, _, _, _)
ScanIfFlat(lines, i, in_else, nested_if, if_block, else_block) ==
    IF i >= Len(lines) THEN [i |-> i, if_block |-> if_block, else_block |-> else_block]
    ELSE LET curr_line == lines[i + 1] IN
         IF curr_line.k = "end_if"
         THEN [i |-> i, if_block |-> if_block, else_block |-> else_block]
         ELSE IF curr_line.k = "else"
         THEN ScanIfFlat(lines, i + 1, TRUE, nested_if, if_block, else_block)
         ELSE ScanIfFlat(lines, i + 1, in_else, nested_if,
                         IF in_else THEN if_block ELSE Append(if_block, curr_line),
                         IF in_else THEN Append(else_block, curr_line) ELSE else_block)

\* the while loop of process_if from index i (0-based) on
RECURSIVE ScanIf(_, _, _, _, _, _)
ScanIf(lines, i, in_else, nested_if, if_block, else_block) ==
    IF i >= Len(lines) THEN [i |-> i, if_block |-> if_block, else_block |-> else_block]
    ELSE LET curr_line == lines[i + 1]
             keep_if == IF in_else THEN if_block ELSE Append(if_block, curr_line)
             keep_else == IF in_else THEN Append(else_block, curr_line) ELSE else_block
         IN  IF curr_line.k = "if"
             THEN ScanIf(lines, i + 1, in_else, nested_if + 1, keep_if, keep_else)
             ELSE IF curr_line.k = "end_if"
             THEN IF nested_if > 0
                  THEN ScanIf(lines, i + 1, in_else, nested_if - 1, keep_if, keep_else)
                  ELSE [i |-> i, if_block |-> if_block, else_block |-> else_block]
             ELSE IF curr_line.k = "else" /\ nested_if = 0
             THEN ScanIf(lines, i + 1, TRUE, nested_if, if_block, else_block)
             ELSE ScanIf(lines, i + 1, in_else, nested_if, keep_if, keep_else)

\* an extraction that takes the first end-while met
RECURSIVE ScanWhileFlat(_, _, _, _)
ScanWhileFlat(lines, i, nested_while, block) ==
    IF i >= Len(lines) THEN [i |-> i, block |-> block]
    ELSE IF lines[i + 1].k = "end_while" THEN [i |-> i, block |-> block]
    ELSE ScanWhileFlat(lines, i + 1, nested_while, Append(block, lines[i + 1]))

RECURSIVE ScanWhile(_, _, _, _)
ScanWhile(lines, i, nested_while, block) ==
    IF i >= Len(lines) THEN [i |-> i, block |-> block]
    ELSE LET curr_line == lines[i + 1] IN
         IF curr_line.k = "while"
         THEN ScanWhile(lines, i + 1, nested_while + 1, Append(block, curr_line))
         ELSE IF curr_line.k = "end_while"
         THEN IF nested_while > 0
              THEN ScanWhile(lines, i + 1, nested_while - 1, Append(block, curr_line))
              ELSE [i |-> i, block |-> block]
         ELSE ScanWhile(lines, i + 1, nested_while, Append(block, curr_line))

RECURSIVE ScanFor(_, _, _)
ScanFor(lines, i, block) ==
    IF i >= Len(lines) THEN [i |-> i, block |-> block]
    ELSE LET curr_line == lines[i + 1] IN
         IF curr_line.k = "end_for" THEN [i |-> i, block |-> block]
         ELSE ScanFor(lines, i + 1, Append(block, curr_line))

RECURSIVE ScanFunc(_, _, _, _)
ScanFunc(lines, i, nested_func, block) ==
    IF i >= Len(lines) THEN [i |-> i, block |-> block]
    ELSE LET curr_line == lines[i + 1] IN
         IF curr_line.k = "func_def"
         THEN ScanFunc(lines, i + 1, nested_func + 1, Append(block, curr_line))
         ELSE IF curr_line.k = "end_func"
         THEN IF nested_func > 0
              THEN ScanFunc(lines, i + 1, nested_func - 1, Append(block, curr_line))
              ELSE [i |-> i, block |-> block]
         ELSE ScanFunc(lines, i + 1, nested_func, Append(block, curr_line))

-----------------------------------------------------------------------------
(* Handlers of simple statements.  Each gives [s |-> the interpreter       *)
(* afterwards, exc |-> the exception it raises, NoSig when it returns].    *)

Done(s) == [s |-> s, exc |-> NoSig]
Throws(s, e) == [s |-> s, exc |-> e]

handle_print(s, line) == Done(eungdi(s, line.text, FALSE))

handle_declare(s, line) == Done(declare_variable(s, line.x))

handle_assign(s, line) ==
    With(evaluate_expression(s, line.e), LAMBDA value :
        IF value.val # NoneV THEN Done(assign_variable(value.s, line.x, value.val))
        ELSE Done(value.s))

handle_output(s, line) ==
    With(get_variable(s, line.x), LAMBDA g : Done(eungdi(g.s, Str(g.val), FALSE)))

handle_delete_var(s, line) ==
    IF line.x \in DOMAIN s.heap[current_scope(s)]
    THEN Done(eungdi([s EXCEPT !.heap[current_scope(s)] = Unbind(@, line.x)],
                     "variable \"" \o line.x \o "\" deleted", FALSE))
    ELSE Done(eungdi(s, "error: variable \"" \o line.x \o "\" is not in the current scope",
                     TRUE))

\* sorted(lst) for a list of numbers: insertion into the sorted tail
RECURSIVE sorted(_)
InsertSorted(v, ss) ==
    LET n == Cardinality({i \in 1..Len(ss) : NumOf(ss[i]) < NumOf(v)})
    IN  SubSeq(ss, 1, n) \o <<v>> \o SubSeq(ss, n + 1, Len(ss))
sorted(items) ==
    IF Len(items) = 0 THEN <<>> ELSE InsertSorted(items[1], sorted(Tail(items)))

\* the elements of the list can be ordered by < (numbers; a mix with strings cannot)
Comparable(items) == Len(items) <= 1 \/ \A i \in 1..Len(items) : IsNum(items[i])

handle_list_sort(s, line) ==
    With(get_variable(s, line.x), LAMBDA lst :
        IF lst.val.t = "list" THEN
            IF Comparable(lst.val.items)
            THEN Done(eungdi(assign_variable(lst.s, line.x, ListV(sorted(lst.val.items))),
                             "list '" \o line.x \o "' sorted", FALSE))
            ELSE Throws(lst.s, PyError("'<' not supported between instances"))
        ELSE Done(eungdi(lst.s, "error: variable '" \o line.x \o "' is not a list", TRUE)))

\* the value v once the dict object d has changed: every reference to the
\* object shows the change
RECURSIVE Put(_, _)
Put(v, d) ==
    CASE v.t = "list" -> [v EXCEPT !.items = [i \in 1..Len(v.items) |-> Put(v.items[i], d)]]
      [] v.t = "dict" ->
            IF d.t = "dict" /\ d.tag # <<>> /\ v.tag = d.tag THEN d
            ELSE [v EXCEPT !.vals = [i \in 1..Len(v.vals) |-> Put(v.vals[i], d)]]
      [] OTHER -> v

\* the frames once the dict object d has changed
PutHeap(h, d) == [id \in 1..Len(h) |-> [n \in DOMAIN h[id] |-> Put(h[id][n], d)]]

\* d[key] = value changes the object in place
handle_dict_add(s, line) ==
    With(get_variable(s, line.x), LAMBDA d :
        IF d.val.t = "dict" THEN
            With(evaluate_expression(d.s, line.key), LAMBDA key :
            With(evaluate_expression(key.s, line.value), LAMBDA value :
                IF Hashable(key.val)
                THEN Done(eungdi([value.s EXCEPT !.heap =
                                      PutHeap([@ EXCEPT ![Nearest(s, line.x)] =
                                                  Bind(@, line.x,
                                                       DictSet(d.val, key.val, value.val))],
                                              DictSet(d.val, key.val, value.val))],
                                 "dict '" \o line.x \o "': key " \o Str(key.val)
                                 \o " added/changed", FALSE))
                ELSE Throws(value.s, PyError("unhashable type: '" \o key.val.t \o "'"))))
        ELSE Done(eungdi(d.s, "error: variable '" \o line.x \o "' is not a dict", TRUE)))

handle_reset(s, line) ==
    Done(eungdi([s EXCEPT !.heap = Append(@, s.heap[s.scopes[1]]),
                          !.scopes = <<Len(s.heap) + 1>>],
                "scopes reset", FALSE))

\* json.dump(..., default=str): what is not JSON goes through str()
RECURSIVE json_dump(_)
json_dump(v) ==
    CASE v.t \in {"builtin", "func"} -> StrV(Str(v))
      [] v.t = "list" -> ListV([i \in 1..Len(v.items) |-> json_dump(v.items[i])])
      [] v.t = "dict" -> DictV([i \in 1..Len(v.keys) |-> StrV(Str(v.keys[i]))],
                               [i \in 1..Len(v.vals) |-> json_dump(v.vals[i])])
      [] OTHER -> v

\* user_vars after `for scope in self.scopes[1:]: user_vars.update(scope)`
user_vars(s) ==
    [n \in UNION {DOMAIN s.heap[s.scopes[i]] : i \in 2..Len(s.scopes)} |->
        s.heap[s.scopes[CHOOSE i \in 2..Len(s.scopes) :
                          /\ n \in DOMAIN s.heap[s.scopes[i]]
                          /\ \A j \in i + 1..Len(s.scopes) :
                                 n \notin DOMAIN s.heap[s.scopes[j]]]][n]]

\* the file names that open(filename, "w") accepts
Writable(filename) == filename # ""

handle_save_vars(s, line) ==
    IF Writable(line.filename)
    THEN With(user_vars(s), LAMBDA u :
             Done(eungdi([s EXCEPT !.files =
                              [f \in DOMAIN s.files \cup {line.filename} |->
                                  IF f = line.filename
                                  THEN [n \in DOMAIN u |-> json_dump(u[n])]
                                  ELSE s.files[f]]],
                         "variables saved: " \o line.filename, FALSE)))
    ELSE Done(eungdi(s, "error: saving the variables failed", TRUE))

handle_exit(s, line) == Throws(eungdi(s, "interpreter exits", FALSE), SystemExit)

\* text of a cleaned line, for the "unknown command" diagnostic
LineText(line) == IF line.k = "unknown" THEN line.text ELSE line.k

\* the loop over single_commands without the return after the handler
interpret_lineFallThrough(s, line) ==
    CASE line.k = "blank" -> Done(s)
      [] line.k = "print" ->
            Done(eungdi(handle_print(s, line).s,
                        "error: unknown command - " \o LineText(line), TRUE))
      [] line.k = "declare" -> handle_declare(s, line)
      [] line.k = "assign" -> handle_assign(s, line)
      [] line.k = "output" -> handle_output(s, line)
      [] line.k = "delete_var" -> handle_delete_var(s, line)
      [] line.k = "list_sort" -> handle_list_sort(s, line)
      [] line.k = "dict_add" -> handle_dict_add(s, line)
      [] line.k = "reset" -> handle_reset(s, line)
      [] line.k = "exit" -> handle_exit(s, line)
      [] line.k = "save_vars" -> handle_save_vars(s, line)
      [] OTHER -> Done(eungdi(s, "error: unknown command - " \o LineText(line), TRUE))

interpret_line(s, line) ==
    CASE line.k = "blank" -> Done(s)
      [] line.k = "print" -> handle_print(s, line)
      [] line.k = "declare" -> handle_declare(s, line)
      [] line.k = "assign" -> handle_assign(s, line)
      [] line.k = "output" -> handle_output(s, line)
      [] line.k = "delete_var" -> handle_delete_var(s, line)
      [] line.k = "list_sort" -> handle_list_sort(s, line)
      [] line.k = "dict_add" -> handle_dict_add(s, line)
      [] line.k = "reset" -> handle_reset(s, line)
      [] line.k = "exit" -> handle_exit(s, line)
      [] line.k = "save_vars" -> handle_save_vars(s, line)
      [] OTHER -> Done(eungdi(s, "error: unknown command - " \o LineText(line), TRUE))

-----------------------------------------------------------------------------
(* The engine.  stack holds the activations of interpret_program,          *)
(* execute_lines, process_if, process_while, process_for and               *)
(* Function.call (with its caller process_func_call), bottom first.        *)

ProgFrame == [k |-> "prog"]
ExecFrame(lines, i) == [k |-> "exec", lines |-> lines, i |-> i]
IfFrame(next) == [k |-> "if", next |-> next]
WhileFrame(condition_expr, block, next) ==
    [k |-> "while", condition_expr |-> condition_expr, block |-> block, next |-> next]
\* the elements `for item in iterable_value` visits (the programs iterate
\* lists and dicts, no strings)
ItemsOf(v) ==
    CASE v.t = "list" -> v.items
      [] v.t = "dict" -> v.keys

\* process_for in its loop: items are the elements still to come, used the
\* size that the iterator of a dict took note of
ForFrame(iter_var, iterable_value, block, next) ==
    [k |-> "for", iter_var |-> iter_var, iterable_value |-> iterable_value,
     items |-> ItemsOf(iterable_value), used |-> Len(ItemsOf(iterable_value)),
     block |-> block, next |-> next]
CallFrame(func_obj, old_scopes) ==
    [k |-> "call", func_obj |-> func_obj, old_scopes |-> old_scopes]

Top == stack[Len(stack)]
Under == stack[Len(stack) - 1]
Pop(n) == SubSeq(stack, 1, Len(stack) - n)

\* the stack with its top n activations gone and the execute_lines activation
\* then on top continuing at index i
Resume(n, i) == [Pop(n) EXCEPT ![Len(stack) - n].i = i]

Commit(s) ==
    /\ scopes' = s.scopes
    /\ heap' = s.heap
    /\ out' = s.out
    /\ current_line' = s.current_line
    /\ AST_CACHE' = s.cache
    /\ stamp' = s.stamp
    /\ files' = s.files
    /\ UNCHANGED <<argv, stdin, raw_line, cleaned, prog, debug, fast>>

InBounds == Len(out) < MaxOut /\ Len(heap) < MaxHeap

Running == status = "running" /\ sig = NoSig /\ InBounds
Raising == status = "running" /\ sig # NoSig /\ InBounds

\* execute_lines is at a line: the loop body runs for lines[i]
AtLine == Running /\ Top.k = "exec" /\ Top.i < Len(Top.lines)
\* execute_lines has run off the end of its lines and returns
AtEnd == Running /\ Top.k = "exec" /\ Top.i >= Len(Top.lines)

Line == Top.lines[Top.i + 1]

\* self.current_line = i + 1
Here == [Self EXCEPT !.current_line = Top.i + 1]

\* interpret_program(program): execute_lines(lines, 0) inside try/except
interpret_program ==
    /\ status = "idle"
    /\ status' = "running"
    /\ stack' = <<ProgFrame, ExecFrame(prog, 0)>>
    /\ UNCHANGED <<argv, stdin, raw_line, cleaned, files, prog, scopes, heap, out, current_line, debug, fast, AST_CACHE, stamp, sig, ret>>

\* execute_lines: an empty line is skipped
ExecBlank ==
    /\ AtLine /\ Line.k = "blank"
    /\ Commit(Here)
    /\ stack' = Resume(0, Top.i + 1)
    /\ UNCHANGED <<sig, ret, status>>

\* process_if up to the call of execute_lines on the chosen block
process_if ==
    /\ AtLine /\ Line.k = "if"
    /\ \E condition \in {evaluate_expression(Here, Line.e)},
          b \in {ScanIf(Top.lines, Top.i + 1, FALSE, 0, <<>>, <<>>)} :
           /\ Commit(push_scope(condition.s))
           /\ stack' = stack \o <<IfFrame(b.i + 1),
                                  ExecFrame(IF Truthy(condition.val) THEN b.if_block
                                            ELSE b.else_block, 0)>>
    /\ UNCHANGED <<sig, ret, status>>

\* process_if after execute_lines returned: pop_scope, return i + 1
IfEnd ==
    /\ AtEnd /\ Under.k = "if"
    /\ Commit(pop_scope(Self))
    /\ stack' = Resume(2, Under.next)
    /\ UNCHANGED <<sig, ret, status>>

\* process_while up to its loop: the block is extracted
process_while ==
    /\ AtLine /\ Line.k = "while"
    /\ \E b \in {ScanWhile(Top.lines, Top.i + 1, 0, <<>>)} :
           stack' = Append(stack, WhileFrame(Line.e, b.block, b.i + 1))
    /\ Commit(Here)
    /\ UNCHANGED <<sig, ret, status>>

\* `while self.evaluate_expression(condition_expr):` and the start of the body
WhileGuard ==
    /\ Running /\ Top.k = "while"
    /\ \E condition \in {evaluate_expression(Self, Top.condition_expr)} :
           IF Truthy(condition.val)
           THEN /\ Commit(push_scope(condition.s))
                /\ stack' = Append(stack, ExecFrame(Top.block, 0))
           ELSE /\ Commit(condition.s)
                /\ stack' = Resume(1, Top.next)
    /\ UNCHANGED <<sig, ret, status>>

\* the body of the while loop ran to its end: pop_scope, next iteration
WhileBodyEnd ==
    /\ AtEnd /\ Under.k = "while"
    /\ Commit(pop_scope(Self))
    /\ stack' = Pop(1)
    /\ UNCHANGED <<sig, ret, status>>

\* process_for up to its loop
process_for ==
    /\ AtLine /\ Line.k = "for"
    /\ \E iterable_value \in {evaluate_expression(Here, Line.e)},
          b \in {ScanFor(Top.lines, Top.i + 1, <<>>)} :
           IF ~Iterable(iterable_value.val)
           THEN /\ Commit(eungdi(iterable_value.s,
                                 "error: the target of for is not iterable", TRUE))
                /\ stack' = Resume(0, Top.i + 1)
           ELSE /\ Commit(iterable_value.s)
                /\ stack' = Append(stack, ForFrame(Line.x, iterable_value.val,
                                                   b.block, b.i + 1))
    /\ UNCHANGED <<sig, ret, status>>

\* `for item in iterable_value:` takes the next element, or the loop ends
ForNext ==
    /\ Running /\ Top.k = "for"
    /\ IF Top.iterable_value.t = "dict" /\ Len(Top.iterable_value.keys) # Top.used
       THEN /\ Commit(Self)
            /\ sig' = PyError("dictionary changed size during iteration")
            /\ stack' = stack
       ELSE IF Len(Top.items) = 0
       THEN /\ Commit(Self)
            /\ sig' = sig
            /\ stack' = Resume(1, Top.next)
       ELSE /\ Commit(assign_variable(declare_variable(push_scope(Self), Top.iter_var),
                                      Top.iter_var, Top.items[1]))
            /\ sig' = sig
            /\ stack' = [stack EXCEPT ![Len(stack)].items = Tail(@)]
                            \o <<ExecFrame(Top.block, 0)>>
    /\ UNCHANGED <<ret, status>>

\* the body of the for loop ran to its end: pop_scope, next element
ForBodyEnd ==
    /\ AtEnd /\ Under.k = "for"
    /\ Commit(pop_scope(Self))
    /\ stack' = Pop(1)
    /\ UNCHANGED <<sig, ret, status>>

\* a closure that shares the live frames instead of copying them
SnapshotShared(s) == [heap |-> s.heap, scopes |-> s.scopes]
\* closure = copy.deepcopy(self.scopes): [heap, scopes] (the closure's frames)
Snapshot(s) == deepcopy(s.heap, s.scopes)

\* a definition that binds the name in the snapshot too
process_func_defKnot ==
    /\ AtLine /\ Line.k = "func_def"
    /\ \E b \in {ScanFunc(Top.lines, Top.i + 1, 0, <<>>)}, closure \in {Snapshot(Here)} :
           /\ Commit(assign_variable(
                      declare_variable(
                          [Here EXCEPT !.heap =
                              [closure.heap EXCEPT ![closure.scopes[Len(closure.scopes)]] =
                                  Bind(@, Line.f,
                                       Function(Line.params, b.block, closure.scopes))]],
                          Line.f),
                      Line.f, Function(Line.params, b.block, closure.scopes)))
           /\ stack' = Resume(0, b.i + 1)
    /\ UNCHANGED <<sig, ret, status>>

\* process_func_def: the block, the snapshot, then the binding of the name
process_func_def ==
    /\ AtLine /\ Line.k = "func_def"
    /\ \E b \in {ScanFunc(Top.lines, Top.i + 1, 0, <<>>)}, closure \in {Snapshot(Here)} :
           /\ Commit(assign_variable(
                      declare_variable([Here EXCEPT !.heap = closure.heap], Line.f),
                      Line.f, Function(Line.params, b.block, closure.scopes)))
           /\ stack' = Resume(0, b.i + 1)
    /\ UNCHANGED <<sig, ret, status>>

\* the frame of the parameters: current_scope()[p] = arg for zip(params, args)
RECURSIVE BindParams(_, _, _)
BindParams(frame, params, args) ==
    IF Len(params) = 0 \/ Len(args) = 0 THEN frame
    ELSE BindParams(Bind(frame, params[1], args[1]), Tail(params), Tail(args))

\* a check of the number of arguments that lets surplus arguments pass
ArityOkSurplus(func_obj, args) == Len(args) >= Len(func_obj.params)
\* Function.call's check of the number of arguments
ArityOk(func_obj, args) == Len(args) = Len(func_obj.params)

\* a call that runs the body on a fresh copy of the snapshot
CallEnterOnCopy(s, func_obj, args) ==
    IF ~ArityOk(func_obj, args)
    THEN [s |-> eungdi(s, "error: wrong number of arguments. expected: "
                          \o IntStr(Len(func_obj.params)) \o ", given: "
                          \o IntStr(Len(args)), TRUE),
          entered |-> FALSE]
    ELSE With(deepcopy(s.heap, func_obj.closure), LAMBDA c :
         [s |-> [(IF s.debug
                  THEN eungdi(s, "[DEBUG] call of " \o Str(func_obj) \o " starts, args: "
                                 \o Repr(ListV(args)), FALSE)
                  ELSE s)
                 EXCEPT !.heap = Append(c.heap, BindParams(EmptyFrame, func_obj.params, args)),
                        !.scopes = c.scopes \o <<Len(c.heap) + 1>>],
          entered |-> TRUE])

\* Function.call from its arity check on, up to execute_lines(self.block, 0):
\* [s, entered]; entered is FALSE when the arity check returned None
CallEnter(s, func_obj, args) ==
    IF ~ArityOk(func_obj, args)
    THEN [s |-> eungdi(s, "error: wrong number of arguments. expected: "
                          \o IntStr(Len(func_obj.params)) \o ", given: "
                          \o IntStr(Len(args)), TRUE),
          entered |-> FALSE]
    ELSE [s |-> [(IF s.debug
                  THEN eungdi(s, "[DEBUG] call of " \o Str(func_obj) \o " starts, args: "
                                 \o Repr(ListV(args)), FALSE)
                  ELSE s)
                 EXCEPT !.heap = Append(@, BindParams(EmptyFrame, func_obj.params, args)),
                        !.scopes = func_obj.closure \o <<Len(s.heap) + 1>>],
          entered |-> TRUE]

\* a call statement that gives up when an argument failed to evaluate
process_func_callStrict ==
    /\ AtLine /\ Line.k = "func_call"
    /\ \E args_values \in {EvalArgs(Here, Line.args, <<>>)} :
       \E func_obj \in {get_variable(args_values.s, Line.f)} :
           IF Len(args_values.s.out) > Len(out)
           THEN /\ Commit(args_values.s)
                /\ stack' = Resume(0, Top.i + 1)
                /\ ret' = ret
           ELSE IF func_obj.val.t # "func"
           THEN /\ Commit(eungdi(func_obj.s,
                                 "error: \"" \o Line.f \o "\" is not a function", TRUE))
                /\ stack' = Resume(0, Top.i + 1)
                /\ ret' = ret
           ELSE \E c \in {CallEnter(func_obj.s, func_obj.val, args_values.vals)} :
                /\ Commit(c.s)
                /\ IF c.entered
                   THEN /\ stack' = stack \o <<CallFrame(func_obj.val, func_obj.s.scopes),
                                               ExecFrame(func_obj.val.block, 0)>>
                        /\ ret' = ret
                   ELSE /\ stack' = Resume(0, Top.i + 1)
                        /\ ret' = Append(ret, NoneV)
    /\ UNCHANGED <<sig, status>>

\* process_func_call, and Function.call up to the execution of the body
process_func_call ==
    /\ AtLine /\ Line.k = "func_call"
    /\ \E args_values \in {EvalArgs(Here, Line.args, <<>>)} :
       \E func_obj \in {get_variable(args_values.s, Line.f)} :
           IF func_obj.val.t # "func"
           THEN /\ Commit(eungdi(func_obj.s,
                                 "error: \"" \o Line.f \o "\" is not a function", TRUE))
                /\ stack' = Resume(0, Top.i + 1)
                /\ ret' = ret
           ELSE \E c \in {CallEnter(func_obj.s, func_obj.val, args_values.vals)} :
                /\ Commit(c.s)
                /\ IF c.entered
                   THEN /\ stack' = stack \o <<CallFrame(func_obj.val, func_obj.s.scopes),
                                               ExecFrame(func_obj.val.block, 0)>>
                        /\ ret' = ret
                   ELSE /\ stack' = Resume(0, Top.i + 1)
                        /\ ret' = Append(ret, NoneV)
    /\ UNCHANGED <<sig, status>>

\* Function.call after the body: interpreter.scopes = old_scopes, return ret_value
CallLeave(s, frame, ret_value) ==
    IF s.debug
    THEN eungdi([s EXCEPT !.scopes = frame.old_scopes],
                "[DEBUG] call of " \o Str(frame.func_obj) \o " ends, returns: "
                \o Str(ret_value), FALSE)
    ELSE [s EXCEPT !.scopes = frame.old_scopes]

\* the body ran to its end: ret_value stays None
CallEnd ==
    /\ AtEnd /\ Under.k = "call"
    /\ Commit(CallLeave(Self, Under, NoneV))
    /\ ret' = Append(ret, NoneV)
    /\ stack' = Resume(2, stack[Len(stack) - 2].i + 1)
    /\ UNCHANGED <<sig, status>>

\* execute_lines: raise BreakException()
ExecBreak ==
    /\ AtLine /\ Line.k = "break"
    /\ Commit(Here)
    /\ sig' = BreakException
    /\ UNCHANGED <<stack, ret, status>>

\* execute_lines: raise ContinueException()
ExecContinue ==
    /\ AtLine /\ Line.k = "continue"
    /\ Commit(Here)
    /\ sig' = ContinueException
    /\ UNCHANGED <<stack, ret, status>>

\* process_return: raise ReturnException(ret_val)
process_return ==
    /\ AtLine /\ Line.k = "return"
    /\ \E ret_val \in {IF Line.has THEN evaluate_expression(Here, Line.e)
                         ELSE [s |-> Here, val |-> NoneV]} :
           /\ Commit(ret_val.s)
           /\ sig' = ReturnException(ret_val.val)
    /\ UNCHANGED <<stack, ret, status>>

\* the kinds of line that execute_lines treats itself
EngineKinds ==
    {"blank", "if", "while", "for", "func_def", "func_call", "break", "continue", "return"}

\* the dict object that the line changed in place, None when it changed none
Changed(s, line) ==
    IF line.k = "dict_add" /\ Holders(s, line.x) # {}
    THEN s.heap[Nearest(s, line.x)][line.x]
    ELSE NoneV

\* the activations once the dict object d has changed: the loops of
\* process_for hold the object they iterate and the elements still to come
PutStack(st, d) ==
    [n \in 1..Len(st) |->
        IF st[n].k = "for"
        THEN [st[n] EXCEPT !.iterable_value = Put(@, d),
                           !.items = IF st[n].iterable_value.t = "dict" THEN @
                                     ELSE [i \in 1..Len(@) |-> Put(@[i], d)]]
        ELSE st[n]]

\* execute_lines: any other line goes to interpret_line
ExecSimple ==
    /\ AtLine /\ Line.k \notin EngineKinds
    /\ \E r \in {interpret_line(Here, Line)} :
           /\ Commit(r.s)
           /\ sig' = r.exc
           /\ stack' = PutStack(IF r.exc = NoSig THEN Resume(0, Top.i + 1) ELSE stack,
                                Changed(r.s, Line))
    /\ UNCHANGED <<ret, status>>

\* interpret_program: execute_lines returned; current_line = None
ProgEnd ==
    /\ AtEnd /\ Under.k = "prog"
    /\ Commit([Self EXCEPT !.current_line = 0])
    /\ stack' = <<>>
    /\ status' = "done"
    /\ UNCHANGED <<sig, ret>>

-----------------------------------------------------------------------------
(* Exception propagation, one activation per step *)

\* execute_lines and process_if have no handler: the exception passes
\* (process_if's pop_scope is not reached)
Propagate ==
    /\ Raising /\ Top.k \in {"exec", "if"}
    /\ stack' = Pop(1)
    /\ UNCHANGED <<argv, stdin, raw_line, cleaned, files, prog, scopes, heap, out, current_line, debug, fast, AST_CACHE, stamp,
                   sig, ret, status>>

\* process_while / process_for: except ContinueException: pop_scope; continue
LoopContinue ==
    /\ Raising /\ Top.k \in {"while", "for"} /\ sig = ContinueException
    /\ Commit(pop_scope(Self))
    /\ sig' = NoSig
    /\ UNCHANGED <<stack, ret, status>>

\* a loop that takes a break for a continue
LoopBreakAsContinue ==
    /\ Raising /\ Top.k \in {"while", "for"} /\ sig = BreakException
    /\ Commit(pop_scope(Self))
    /\ sig' = NoSig
    /\ UNCHANGED <<stack, ret, status>>

\* process_while / process_for: except BreakException: pop_scope; break
LoopBreak ==
    /\ Raising /\ Top.k \in {"while", "for"} /\ sig = BreakException
    /\ Commit(pop_scope(Self))
    /\ sig' = NoSig
    /\ stack' = Resume(1, Top.next)
    /\ UNCHANGED <<ret, status>>

\* process_while / process_for: any other exception passes
LoopPropagate ==
    /\ Raising /\ Top.k \in {"while", "for"}
    /\ sig \notin {ContinueException, BreakException}
    /\ stack' = Pop(1)
    /\ UNCHANGED <<argv, stdin, raw_line, cleaned, files, prog, scopes, heap, out, current_line, debug, fast, AST_CACHE, stamp,
                   sig, ret, status>>

\* Function.call: except ReturnException as ret_ex: ret_value = ret_ex.value
CallReturn ==
    /\ Raising /\ Top.k = "call" /\ sig.t = "return"
    /\ Commit(CallLeave(Self, Top, sig.value))
    /\ ret' = Append(ret, sig.value)
    /\ sig' = NoSig
    /\ stack' = Resume(1, Under.i + 1)
    /\ UNCHANGED status

\* Function.call: any other exception passes; old_scopes is not restored
CallPropagate ==
    /\ Raising /\ Top.k = "call" /\ sig.t # "return"
    /\ stack' = Pop(1)
    /\ UNCHANGED <<argv, stdin, raw_line, cleaned, files, prog, scopes, heap, out, current_line, debug, fast, AST_CACHE, stamp,
                   sig, ret, status>>

\* interpret_program: except Exception as e: report; current_line = None
\* the handler of interpret_program as `except BaseException`
ProgCatchBase ==
    /\ Raising /\ Top.k = "prog"
    /\ Commit([eungdi(Self, "error during execution: " \o ExcStr(sig), TRUE)
                  EXCEPT !.current_line = 0])
    /\ sig' = NoSig
    /\ stack' = <<>>
    /\ status' = "done"
    /\ UNCHANGED ret

ProgCatch ==
    /\ Raising /\ Top.k = "prog" /\ sig # SystemExit
    /\ Commit([eungdi(Self, "error during execution: " \o ExcStr(sig), TRUE)
                  EXCEPT !.current_line = 0])
    /\ sig' = NoSig
    /\ stack' = <<>>
    /\ status' = "done"
    /\ UNCHANGED ret

\* sys.exit(0) is no Exception: the process ends
ProgExit ==
    /\ Raising /\ Top.k = "prog" /\ sig = SystemExit
    /\ stack' = <<>>
    /\ status' = "exited"
    /\ UNCHANGED <<argv, stdin, raw_line, cleaned, files, prog, scopes, heap, out, current_line, debug, fast, AST_CACHE, stamp,
                   sig, ret>>

-----------------------------------------------------------------------------
(* Programs: the inputs of interpret_program *)

IntC(n) == Constant(IntV(n))
TrueE == Expr(Compare(IntC(1), <<"Eq">>, <<IntC(1)>>))
FalseE == Expr(Compare(IntC(1), <<"Eq">>, <<IntC(2)>>))
Positive(x) == Expr(Compare(Name(x), <<"Gt">>, <<IntC(0)>>))
Minus1(x) == Expr(BinOp(Name(x), "Sub", IntC(1)))
Plus1(x) == Expr(BinOp(Name(x), "Add", IntC(1)))
\* [1, 2, ...]: one element per iteration
Range == Expr(ListNode([i \in 1..Iterations |-> IntC(i)]))
\* [1, "a"]: a list that sorted() cannot order
Mixed == Expr(ListNode(<<IntC(1), Constant(StrV("a"))>>))
\* [2, 1]
List21 == Expr(ListNode(<<IntC(2), IntC(1)>>))
\* {}
EmptyDict == Expr(DictNode(<<>>, <<>>))

\* names of the loop counters and iteration variables, by nesting level
Cnt == <<"c1", "c2", "c3">>
Itv == <<"i1", "i2", "i3">>

Kinds == {"none", "if", "else", "while", "for"}
LoopKinds == {"while", "for"}

\* body inside a construct of the kind; loops run their body Iterations times
Wrap(kind, d, body) ==
    CASE kind = "none" -> body
      [] kind = "if" -> <<IfL(TrueE)>> \o body \o <<EndIfL>>
      [] kind = "else" -> <<IfL(FalseE), PrintL("then"), ElseL>> \o body \o <<EndIfL>>
      [] kind = "while" ->
            <<DeclareL(Cnt[d]), AssignL(Cnt[d], Expr(IntC(Iterations))),
              WhileL(Positive(Cnt[d])),
              AssignL(Cnt[d], Minus1(Cnt[d]))>> \o body \o <<EndWhileL>>
      [] kind = "for" -> <<ForL(Itv[d], Range)>> \o body \o <<EndForL>>

StmtNames ==
    {"none", "break", "continue", "return_none", "return", "fail", "fail_dict",
     "if_break", "if_continue", "exit"}

Stmt(name) ==
    CASE name = "none" -> <<>>
      [] name = "break" -> <<BreakL>>
      [] name = "continue" -> <<ContinueL>>
      [] name = "return_none" -> <<ReturnNoneL>>
      [] name = "return" -> <<ReturnL(Expr(IntC(5)))>>
      [] name = "fail" -> <<SortL("bad")>>
      [] name = "fail_dict" -> <<DictAddL("d", Expr(ListNode(<<IntC(1)>>)), Expr(IntC(2)))>>
      [] name = "if_break" -> <<IfL(TrueE), BreakL, EndIfL>>
      [] name = "if_continue" -> <<IfL(TrueE), ContinueL, EndIfL>>
      [] name = "exit" -> <<ExitL>>

Prelude ==
    <<DeclareL("bad"), AssignL("bad", Mixed), DeclareL("d"), AssignL("d", EmptyDict)>>

\* the statement at nesting (k1, k2), with marker lines around it
Nest(k1, k2, name) ==
    Wrap(k1, 1, <<PrintL("o1")>>
                \o Wrap(k2, 2, <<PrintL("in")>> \o Stmt(name) \o <<PrintL("in2")>>)
                \o <<PrintL("o2")>>)

TopProgram(k1, k2, name) == Prelude \o Nest(k1, k2, name) \o <<PrintL("end")>>

\* the same nest as the body of f, called from a construct of kind k0
FuncProgram(k0, k1, k2, name) ==
    Prelude \o <<FuncDefL("f", <<>>)>> \o Nest(k1, k2, name) \o <<PrintL("fend"), EndFuncL>>
    \o Wrap(k0, 3, <<FuncCallL("f", <<>>), PrintL("after-call")>>) \o <<PrintL("end")>>

TopPrograms == {TopProgram(k1, k2, name) : k1 \in Kinds, k2 \in Kinds, name \in StmtNames}

CallerKinds == {"none", "while", "for"}

FuncPrograms ==
    {FuncProgram(k0, k1, k2, name) :
        k0 \in CallerKinds, k1 \in Kinds, k2 \in Kinds, name \in StmtNames}

\* the statements that end the body of f: by return, or by running off its end
ReturnStmts == {"none", "return_none", "return"}

\* h calls g, whose body is the nest; both return to their caller
NestedCallProgram(k1, k2, name) ==
    <<FuncDefL("g", <<>>)>> \o Nest(k1, k2, name) \o <<PrintL("fend"), EndFuncL,
      FuncDefL("h", <<>>), PrintL("h1"), FuncCallL("g", <<>>), PrintL("h2"),
      ReturnL(Expr(IntC(8))), PrintL("h3"), EndFuncL,
      FuncCallL("h", <<>>), PrintL("after-call"), PrintL("end")>>

NestedCallPrograms ==
    {NestedCallProgram(k1, k2, name) : k1 \in Kinds, k2 \in Kinds, name \in ReturnStmts}

\* f reads x, which is a at the definition of f and b at the calls
DefKinds == {"none", "if", "else"}
CallKinds == {"none", "if", "while", "for"}
SnapValues == {1, 2}

SnapProgram(kd, kc, a, b) ==
    <<DeclareL("x"), AssignL("x", Expr(IntC(a)))>>
    \o Wrap(kd, 1, <<FuncDefL("f", <<>>), OutputL("x"), ReturnL(Expr(Name("x"))), EndFuncL,
                      AssignL("x", Expr(IntC(b)))>>
                    \o Wrap(kc, 2, <<FuncCallL("f", <<>>)>>)
                    \o <<OutputL("x")>>)

SnapPrograms ==
    {SnapProgram(kd, kc, a, b) :
        kd \in DefKinds, kc \in CallKinds, a \in SnapValues, b \in SnapValues}

\* f has np parameters and is called with na arguments
ParamNames == <<"a", "b">>
ArgExprs == <<Expr(IntC(7)), Expr(IntC(8))>>
ArgCounts == {0, 1, 2}

ArityProgram(np, na, kc) ==
    <<DeclareL("x"), AssignL("x", Expr(IntC(1))),
      FuncDefL("f", SubSeq(ParamNames, 1, np)), PrintL("body"), ReturnL(Expr(IntC(5))),
      EndFuncL>>
    \o Wrap(kc, 1, <<FuncCallL("f", SubSeq(ArgExprs, 1, na)), PrintL("after-call")>>)
    \o <<PrintL("end")>>

ArityPrograms ==
    {ArityProgram(np, na, kc) : np \in ArgCounts, na \in ArgCounts, kc \in CallKinds}

\* the body of f does x = x + 1 on the captured x (inside a construct of kind
\* kb) and returns x; f is called from a construct of kind kc
MutateProgram(kc, kb) ==
    <<DeclareL("x"), AssignL("x", Expr(IntC(1))), FuncDefL("f", <<>>)>>
    \o Wrap(kb, 2, <<AssignL("x", Plus1("x"))>>)
    \o <<ReturnL(Expr(Name("x"))), EndFuncL>>
    \o Wrap(kc, 1, <<FuncCallL("f", <<>>), OutputL("x")>>)
    \o <<PrintL("end")>>

MutatePrograms == {MutateProgram(kc, kb) : kc \in CallKinds, kb \in Kinds}

\* references to the declared, never assigned u and to the undeclared z, by
\* the output statement and inside expressions, in a construct of kind k
NameProgram(k) ==
    <<DeclareL("x"), AssignL("x", Expr(IntC(1))), DeclareL("u")>>
    \o Wrap(k, 1, <<OutputL("u"), OutputL("z"), AssignL("x", Expr(Name("u"))),
                    AssignL("x", Expr(Name("z"))),
                    AssignL("x", Expr(BinOp(Name("u"), "Add", IntC(1)))), OutputL("x")>>)
    \o <<PrintL("end")>>

NamePrograms == {NameProgram(k) : k \in CallKinds}

\* expressions with call syntax, an attribute access or an augmented
\* assignment, alone and behind an operand that decides an or, an and or a
\* comparison chain, in a construct of kind k
ShortCircuit ==
    {BoolOp("Or", <<IntC(1), CallNode(Name("len"))>>),
     BoolOp("And", <<IntC(0), AttributeNode(Name("x"), "real")>>),
     Compare(IntC(1), <<"Gt", "Gt">>, <<IntC(2), CallNode(Name("len"))>>)}

WhitelistProgram(k, tree) ==
    <<DeclareL("x"), AssignL("x", Expr(IntC(0)))>>
    \o Wrap(k, 1, <<AssignL("x", Expr(CallNode(Name("len")))),
                    AssignL("x", Expr(AttributeNode(Name("x"), "real"))),
                    AssignL("x", Expr(NoParse)), OutputL("x"),
                    AssignL("x", Expr(tree)), OutputL("x")>>)
    \o <<PrintL("end")>>

WhitelistPrograms == {WhitelistProgram(k, tree) : k \in CallKinds, tree \in ShortCircuit}

\* the text " 7" (captured with its leading blank) before and after the text
\* "7" was evaluated, in a construct of kind k
CacheProgram(k) ==
    <<DeclareL("x")>>
    \o Wrap(k, 1, <<AssignL("x", LeadExpr(IntC(7))), OutputL("x"),
                    AssignL("x", Expr(IntC(7))), AssignL("x", LeadExpr(IntC(7))),
                    OutputL("x")>>)
    \o <<PrintL("end")>>

CachePrograms == {CacheProgram(k) : k \in CallKinds}

\* x and the builtin len declared again and assigned in a construct of kind k,
\* which shadows the outer bindings when the construct has a frame of its own
ShadowProgram(k) ==
    <<DeclareL("x"), AssignL("x", Expr(IntC(1)))>>
    \o Wrap(k, 1, <<DeclareL("x"), DeclareL("x"), DeclareL("len"),
                    AssignL("x", Expr(IntC(2))), AssignL("len", Expr(IntC(3))),
                    OutputL("x"), OutputL("len")>>)
    \o <<OutputL("x"), OutputL("len"), PrintL("end")>>

ShadowPrograms == {ShadowProgram(k) : k \in CallKinds}

\* an opener of the kind without its closer, followed by two marker lines
OpenKinds == {"if", "if_false", "else", "while", "for", "for_bad", "func"}

Opener(kind) ==
    CASE kind = "if" -> <<IfL(TrueE)>>
      [] kind = "if_false" -> <<IfL(FalseE)>>
      [] kind = "else" -> <<IfL(FalseE), PrintL("then"), ElseL>>
      [] kind = "while" ->
            <<DeclareL("c1"), AssignL("c1", Expr(IntC(Iterations))),
              WhileL(Positive("c1")), AssignL("c1", Minus1("c1"))>>
      [] kind = "for" -> <<ForL("i1", Range)>>
      [] kind = "for_bad" -> <<ForL("i1", Expr(IntC(3)))>>
      [] kind = "func" -> <<FuncDefL("f", <<>>)>>

\* the opener stands at top level or inside a closed construct of kind k
OpenProgram(k, kind) ==
    <<PrintL("o1")>>
    \o Wrap(k, 2, Opener(kind) \o <<PrintL("in"), PrintL("in2")>>)

OpenPrograms == {OpenProgram(k, kind) : k \in {"none", "if", "for"}, kind \in OpenKinds}

\* x declared at top level, x and y declared in the frame of a construct of
\* kind k, the variables saved there and at top level, and to the name ""
SaveProgram(k) ==
    <<DeclareL("x"), AssignL("x", Expr(IntC(1))), FuncDefL("f", <<>>), EndFuncL,
      SaveL("top")>>
    \o Wrap(k, 1, <<DeclareL("y"), AssignL("y", List21), DeclareL("x"),
                    AssignL("x", Expr(IntC(3))), SaveL("in"), SaveL("")>>)
    \o <<PrintL("end")>>

SavePrograms == {SaveProgram(k) : k \in CallKinds}

\* an if with its own else nested in each branch of an if, a definition nested
\* in a definition, and a while loop nested in a while loop; g1 and g2 are the guards of the outer and inner ifs
BlockProgram(g1, g2) ==
    <<IfL(g1), PrintL("t1"), IfL(g2), PrintL("t2"), ElseL, PrintL("e2"), EndIfL,
      PrintL("t3"), ElseL, PrintL("e1"), IfL(g2), PrintL("t4"), ElseL, PrintL("e4"),
      EndIfL, PrintL("e5"), EndIfL,
      FuncDefL("f", <<>>), PrintL("f1"), FuncDefL("g", <<>>), PrintL("g1"), EndFuncL,
      FuncCallL("g", <<>>), PrintL("f2"), EndFuncL>>
    \o Wrap("while", 1, <<PrintL("w1")>> \o Wrap("while", 2, <<PrintL("w2")>>)
                        \o <<PrintL("w3")>>)
    \o <<FuncCallL("f", <<>>), PrintL("end")>>

BlockPrograms == {BlockProgram(g1, g2) : g1 \in {TrueE, FalseE}, g2 \in {TrueE, FalseE}}

\* x == 4
IsFour(x) == Expr(Compare(Name(x), <<"Eq">>, <<IntC(4)>>))
\* x - 3
Minus3(x) == Expr(BinOp(Name(x), "Sub", IntC(3)))

\* the while loop of run_tests (x = 10 + 5 there): subtract 3, print, break at 4
ScenarioC(x0) ==
    <<DeclareL("x"), AssignL("x", Expr(IntC(x0))), WhileL(Positive("x")),
      AssignL("x", Minus3("x")), OutputL("x"), IfL(IsFour("x")), BreakL, EndIfL,
      EndWhileL>>

\* the same loop with a statement after the if, and the if holding stmt
WhileProgram(x0, stmt) ==
    <<DeclareL("x"), AssignL("x", Expr(IntC(x0))), WhileL(Positive("x")),
      AssignL("x", Minus3("x")), OutputL("x"), IfL(IsFour("x")), stmt, EndIfL,
      PrintL("in2"), EndWhileL, PrintL("end")>>

\* the for loop of run_tests: print, continue, a statement never reached
ScenarioD(n) ==
    <<ForL("i", Expr(ListNode([i \in 1..n |-> IntC(i)]))), OutputL("i"), ContinueL,
      PrintL("unreached"), EndForL>>

Starts == {15, 16}

\* guards that fail to evaluate: an undeclared name, text that does not parse,
\* a call
FailingGuards == {Expr(Name("z")), Expr(NoParse), Expr(CallNode(Name("len")))}

\* an if and a while whose guard g fails, and a while whose guard x > 0 fails
\* after the first run of the body (x is "a" then)
GuardProgram(g) ==
    <<IfL(g), PrintL("then"), ElseL, PrintL("else"), EndIfL, PrintL("o1"),
      WhileL(g), PrintL("body"), EndWhileL, PrintL("o2"),
      DeclareL("x"), AssignL("x", Expr(IntC(1))),
      WhileL(Positive("x")), PrintL("in"), AssignL("x", Expr(Constant(StrV("a")))),
      EndWhileL, PrintL("end")>>

GuardPrograms == {GuardProgram(g) : g \in FailingGuards}

\* the body of f calls f; with twice, f is defined a second time, so that the
\* second snapshot holds the first f; f is called from a construct of kind kc
RecProgram(kc, twice) ==
    (IF twice THEN <<FuncDefL("f", <<>>), PrintL("body"), FuncCallL("f", <<>>),
                     PrintL("fend"), EndFuncL>>
     ELSE <<>>)
    \o <<FuncDefL("f", <<>>), PrintL("body"), FuncCallL("f", <<>>), PrintL("fend"),
         EndFuncL>>
    \o Wrap(kc, 1, <<FuncCallL("f", <<>>)>>)
    \o <<PrintL("end")>>

RecPrograms == {RecProgram(kc, twice) : kc \in CallKinds, twice \in BOOLEAN}

\* arguments: z is bound nowhere, `1 +` does not parse, 7 evaluates
Arguments == {Expr(Name("z")), Expr(NoParse), Expr(IntC(7))}
\* f is a function of two parameters, x a number, h is bound nowhere
Callees == {"f", "x", "h"}

\* a call of func_name with the arguments a1 and a2
ArgProgram(a1, a2, func_name) ==
    <<DeclareL("x"), AssignL("x", Expr(IntC(1))),
      FuncDefL("f", <<"a", "b">>), OutputL("a"), OutputL("b"), EndFuncL,
      FuncCallL(func_name, <<a1, a2>>), PrintL("end")>>

\* {1: 2, 3: 4}
Dict1234 == Expr(DictNode(<<IntC(1), IntC(3)>>, <<IntC(2), IntC(4)>>))

\* what the body of the loop over d does to a dict
DictChanges == {"new", "old", "alias", "param", "closure", "element", "nested", "none"}

\* the body of the loop of DictLoopProgram
DictLoopBody(change) ==
    CASE change = "new" -> <<DictAddL("d", Expr(IntC(5)), Expr(IntC(6)))>>
      [] change = "old" -> <<DictAddL("d", Expr(IntC(1)), Expr(IntC(6)))>>
      [] change = "alias" -> <<DictAddL("y", Expr(IntC(5)), Expr(IntC(6)))>>
      [] change = "param" -> <<FuncCallL("f", <<Expr(Name("d"))>>)>>
      [] change = "closure" -> <<FuncCallL("g", <<>>)>>
      [] change = "element" ->
            <<ForL("e", Expr(ListNode(<<Name("d")>>))),
              DictAddL("e", Expr(IntC(5)), Expr(IntC(6))), EndForL>>
      [] change = "nested" -> <<DictAddL("d", Expr(IntC(1)), Expr(Name("y"))),
                                DictAddL("y", Expr(IntC(5)), Expr(IntC(6)))>>
      [] change = "none" -> <<ContinueL, PrintL("unreached")>>

\* a loop over the keys of the dict d whose body changes a dict: d itself
\* (a new key, a key it has), d through another name y, through the
\* parameter of f, through the element of a list; the copy of d in the
\* snapshot of g; another dict that d holds
DictLoopProgram(change) ==
    <<DeclareL("d"), AssignL("d", Dict1234),
      DeclareL("y"), AssignL("y", IF change = "nested" THEN EmptyDict ELSE Expr(Name("d"))),
      FuncDefL("f", <<"a">>), DictAddL("a", Expr(IntC(5)), Expr(IntC(6))), EndFuncL,
      FuncDefL("g", <<>>), DictAddL("d", Expr(IntC(5)), Expr(IntC(6))), OutputL("d"),
      EndFuncL,
      ForL("k", Expr(Name("d"))), OutputL("k")>>
    \o DictLoopBody(change)
    \o <<PrintL("in2"), EndForL, OutputL("d"), OutputL("y"), PrintL("end")>>

DictLoopPrograms == {DictLoopProgram(change) : change \in DictChanges}

ArgPrograms == {ArgProgram(a1, a2, func_name) :
                    a1 \in Arguments, a2 \in Arguments, func_name \in Callees}

ScenarioPrograms ==
    {ScenarioC(x0) : x0 \in Starts}
    \cup {WhileProgram(x0, stmt) : x0 \in Starts, stmt \in {BreakL, ContinueL}}
    \cup {ScenarioD(3), ScenarioD(4)}

\* the other simple statements and the error paths of for and of the call; the
\* reset runs inside a construct of kind k
MiscProgram(k) ==
    <<BlankL, DeclareL("v"), AssignL("v", List21), SortL("v"), OutputL("v"),
      DeclareL("d"), AssignL("d", EmptyDict), DictAddL("d", Expr(IntC(1)), Expr(IntC(2))),
      OutputL("d"), DeclareL("v"), DeleteL("v"), DeleteL("v"), OutputL("v"),
      AssignL("v", Expr(IntC(1))), AssignL("v", Expr(CallNode(Name("len")))),
      AssignL("v", Expr(AttributeNode(Name("d"), "keys"))), AssignL("v", Expr(NoParse)),
      AssignL("v", LeadExpr(IntC(2))), OutputL("v"), UnknownL("hello"), SortL("d"),
      DictAddL("bad", Expr(IntC(1)), Expr(IntC(2))),
      ForL("i1", Expr(IntC(3))), PrintL("body"), EndForL, FuncCallL("d", <<>>)>>
    \o Wrap(k, 1, <<ResetL, PrintL("in")>>)
    \o <<OutputL("d"), PrintL("end")>>

MiscPrograms == {MiscProgram(k) : k \in CallKinds}

Programs ==
    TopPrograms \cup FuncPrograms \cup NestedCallPrograms \cup SnapPrograms
    \cup ArityPrograms \cup MiscPrograms \cup MutatePrograms
    \cup NamePrograms \cup WhitelistPrograms \cup CachePrograms
    \cup ShadowPrograms \cup OpenPrograms \cup SavePrograms \cup BlockPrograms
    \cup ScenarioPrograms \cup GuardPrograms \cup RecPrograms \cup ArgPrograms \cup DictLoopPrograms

\* the settings of (debug, fast) that the command line can give
Flags == {<<FALSE, FALSE>>, <<TRUE, FALSE>>, <<FALSE, TRUE>>}

-----------------------------------------------------------------------------
(* remove_comments: a line is a sequence of one-character strings *)

Chars == {"#", "'", "\"", "a", " "}

NotCleaned == [done |-> FALSE, text |-> <<>>]

\* str.strip(): the blanks at both ends go
RECURSIVE Strip(_)
Strip(text) ==
    IF text = <<>> THEN text
    ELSE IF Head(text) = " " THEN Strip(Tail(text))
    ELSE IF text[Len(text)] = " " THEN Strip(SubSeq(text, 1, Len(text) - 1))
    ELSE text

\* the loop with the quotes toggled whatever the other mode is
RECURSIVE ScanLoose(_, _, _, _, _)
ScanLoose(text, i, in_single, in_double, result) ==
    IF i > Len(text) THEN result
    ELSE IF text[i] = "'" THEN
        ScanLoose(text, i + 1, ~in_single, in_double, Append(result, text[i]))
    ELSE IF text[i] = "\"" THEN
        ScanLoose(text, i + 1, in_single, ~in_double, Append(result, text[i]))
    ELSE IF text[i] = "#" /\ ~in_single /\ ~in_double THEN result
    ELSE ScanLoose(text, i + 1, in_single, in_double, Append(result, text[i]))

\* the loop that keeps the text between the quotes and drops the quotes
RECURSIVE ScanUnquote(_, _, _, _, _)
ScanUnquote(text, i, in_single, in_double, result) ==
    IF i > Len(text) THEN result
    ELSE IF text[i] = "'" /\ ~in_double THEN
        ScanUnquote(text, i + 1, ~in_single, in_double, result)
    ELSE IF text[i] = "\"" /\ ~in_single THEN
        ScanUnquote(text, i + 1, in_single, ~in_double, result)
    ELSE IF text[i] = "#" /\ ~in_single /\ ~in_double THEN result
    ELSE ScanUnquote(text, i + 1, in_single, in_double, Append(result, text[i]))

\* the while loop of remove_comments from index i (1-based) on: result
RECURSIVE Scan(_, _, _, _, _)
Scan(text, i, in_single, in_double, result) ==
    IF i > Len(text) THEN result
    ELSE IF text[i] = "'" /\ ~in_double THEN
        Scan(text, i + 1, ~in_single, in_double, Append(result, text[i]))
    ELSE IF text[i] = "\"" /\ ~in_single THEN
        Scan(text, i + 1, in_single, ~in_double, Append(result, text[i]))
    ELSE IF text[i] = "#" /\ ~in_single /\ ~in_double THEN result
    ELSE Scan(text, i + 1, in_single, in_double, Append(result, text[i]))

remove_comments(text) == Strip(Scan(text, 1, FALSE, FALSE, <<>>))

\* the lines of at most MaxLine characters
Lines == UNION {[1..n -> Chars] : n \in 0..MaxLine}

\* a fresh interpreter and one line to clean
InitComments ==
    /\ raw_line \in Lines
    /\ cleaned = NotCleaned
    /\ files = NoFiles
    /\ stdin = <<>>
    /\ argv = NoArgs
    /\ prog = <<>>
    /\ debug = FALSE /\ fast = FALSE
    /\ heap = <<BuiltinFrame>>
    /\ scopes = <<1>>
    /\ out = <<>>
    /\ current_line = 0
    /\ AST_CACHE = {}
    /\ stamp = 1
    /\ stack = <<>>
    /\ sig = NoSig
    /\ ret = <<>>
    /\ status = "idle"

\* line = remove_comments(line)
CleanLine ==
    /\ ~cleaned.done
    /\ cleaned' = [done |-> TRUE, text |-> remove_comments(raw_line)]
    /\ UNCHANGED <<argv, stdin, raw_line, files, prog, scopes, heap, out, current_line, debug, fast,
                   AST_CACHE, stamp, stack, sig, ret, status>>

NextComments == CleanLine

SpecComments == InitComments /\ [][NextComments]_vars

-----------------------------------------------------------------------------
(* run_repl.  An input is the line as typed (a sequence of words and       *)
(* blanks) with the statement that the patterns make of it, or an          *)
(* interrupt.  input() returns one line, so every program of the REPL has  *)
(* at most one line.                                                       *)

Typed(text, stmt) == [t |-> "line", text |-> text, stmt |-> stmt]
Statement(stmt) == Typed(<<"statement">>, stmt)
KeyboardInterrupt == [t |-> "interrupt"]

ReplInputs ==
    {Typed(<<"exit">>, UnknownL("exit")), Typed(<<" ", "quit", " ">>, UnknownL("quit")),
     Typed(<<"jongnyo">>, UnknownL("jongnyo")), Typed(<<>>, BlankL), Typed(<<" ">>, BlankL),
     KeyboardInterrupt,
     Typed(<<"jongnyo", " ", "bukttak">>, ExitL),
     Statement(DeclareL("x")), Statement(AssignL("x", Expr(IntC(1)))),
     Statement(OutputL("x")), Statement(UnknownL("hello")), Statement(SortL("x")),
     Statement(ReturnL(Expr(IntC(5)))), Statement(IfL(TrueE)),
     Statement(FuncDefL("f", <<>>)), Statement(FuncCallL("f", <<>>))}

\* line.strip() in ("jongnyo", "exit", "quit")
Quits(text) == Strip(text) \in {<<"jongnyo">>, <<"exit">>, <<"quit">>}

\* program.splitlines() of the one line that input() returned
splitlines(inp) == IF inp.text = <<>> THEN <<>> ELSE <<inp.stmt>>

\* a fresh interpreter (as main makes it) and what will be typed
InitRepl ==
    /\ stdin \in UNION {[1..n -> ReplInputs] : n \in 0..MaxInput}
    /\ prog = <<>>
    /\ debug = FALSE /\ fast = FALSE
    /\ heap = <<BuiltinFrame>>
    /\ scopes = <<1>>
    /\ out = <<>>
    /\ current_line = 0
    /\ AST_CACHE = {}
    /\ stamp = 1
    /\ stack = <<>>
    /\ sig = NoSig
    /\ ret = <<>>
    /\ status = "start"
    /\ raw_line = <<>>
    /\ cleaned = NotCleaned
    /\ files = NoFiles
    /\ argv = NoArgs

\* run_repl up to its loop: the greeting
run_repl ==
    /\ status = "start"
    /\ Commit(eungdi(Self, "interactive mode", FALSE))
    /\ status' = "prompt"
    /\ UNCHANGED <<stack, sig, ret, stdin, argv>>

\* one turn of the loop up to the call of interpret_program: input() raises
\* EOFError at the end of stdin (no handler: "crashed"), an interrupt or a
\* quit word ends the loop ("ended"), any other line is the next program
ReplInput ==
    /\ status \in {"prompt", "done"}
    /\ IF stdin = <<>>
       THEN /\ status' = "crashed"
            /\ sig' = PyError("EOFError")
            /\ UNCHANGED <<stdin, prog, stack>>
       ELSE /\ stdin' = Tail(stdin)
            /\ sig' = NoSig
            /\ IF Head(stdin).t = "interrupt" \/ Quits(Head(stdin).text)
               THEN status' = "ended" /\ UNCHANGED <<prog, stack>>
               ELSE /\ prog' = splitlines(Head(stdin))
                    /\ status' = "running"
                    /\ stack' = <<ProgFrame, ExecFrame(splitlines(Head(stdin)), 0)>>
    /\ UNCHANGED <<argv, raw_line, cleaned, files, scopes, heap, out, current_line, debug, fast,
                   AST_CACHE, stamp, ret>>

-----------------------------------------------------------------------------
(* main: the command line *)

\* the file name arguments tried: none, the empty string, and names with and
\* without the suffix
Filenames ==
    {NoFilename, Filename(<<>>), Filename(<<"a", ".noh">>), Filename(<<"a", ".txt">>),
     Filename(<<".noh">>), Filename(<<"a", ".noh", ".bak">>)}

\* the truth value of args.filename: None and "" are falsy
Named(filename) == filename.given /\ filename.name # <<>>

\* args.filename.endswith('.noh')
endswith_noh(filename) ==
    filename.name # <<>> /\ filename.name[Len(filename.name)] = ".noh"

\* the callee that main's if/elif chain enters; "return" when it enters none
Dispatch(args) ==
    IF args.test THEN "run_tests"
    ELSE IF Named(args.filename)
         THEN IF ~endswith_noh(args.filename) THEN "return" ELSE "run_noh_file"
         ELSE IF args.repl \/ args.isatty THEN "run_repl"
              ELSE "interpret_program"

\* the parsed command line, before the interpreter is constructed
InitMain ==
    /\ argv \in [test : BOOLEAN, debug : BOOLEAN, fast : BOOLEAN, repl : BOOLEAN,
                 filename : Filenames, isatty : BOOLEAN]
    /\ status = "main"
    /\ prog = <<>>
    /\ debug = FALSE /\ fast = FALSE
    /\ heap = <<BuiltinFrame>>
    /\ scopes = <<1>>
    /\ out = <<>>
    /\ current_line = 0
    /\ AST_CACHE = {}
    /\ stamp = 1
    /\ stack = <<>>
    /\ sig = NoSig
    /\ ret = <<>>
    /\ raw_line = <<>>
    /\ cleaned = NotCleaned
    /\ files = NoFiles
    /\ stdin = <<>>

\* main up to the call it makes: Interpreter(debug, fast), then the chain; the
\* status is the callee entered
main ==
    /\ status = "main"
    /\ status' = Dispatch(argv)
    /\ \E made \in {[Self EXCEPT !.debug = argv.debug, !.fast = argv.fast]} :
          \E s \in {IF Dispatch(argv) = "return"
                     THEN eungdi(made, "error: the file extension must be .noh", TRUE)
                     ELSE made} :
             /\ out' = s.out
             /\ debug' = s.debug
             /\ fast' = s.fast
    /\ UNCHANGED <<argv, stdin, prog, scopes, heap, current_line, AST_CACHE, stamp, stack, sig,
                   ret, raw_line, cleaned, files>>

NextMain == main

SpecMain == InitMain /\ [][NextMain]_vars

-----------------------------------------------------------------------------
(* Specification *)

\* Interpreter.__init__, and a program to run
Init ==
    /\ prog \in Programs
    /\ \E fl \in Flags : debug = fl[1] /\ fast = fl[2]
    /\ heap = <<BuiltinFrame>>
    /\ scopes = <<1>>
    /\ out = <<>>
    /\ current_line = 0
    /\ AST_CACHE = {}
    /\ stamp = 1
    /\ stack = <<>>
    /\ sig = NoSig
    /\ ret = <<>>
    /\ status = "idle"
    /\ raw_line = <<>>
    /\ cleaned = NotCleaned
    /\ files = NoFiles
    /\ stdin = <<>>
    /\ argv = NoArgs

Next ==
    \/ interpret_program
    \/ ExecBlank
    \/ process_if
    \/ IfEnd
    \/ process_while
    \/ WhileGuard
    \/ WhileBodyEnd
    \/ process_for
    \/ ForNext
    \/ ForBodyEnd
    \/ process_func_def
    \/ process_func_call
    \/ CallEnd
    \/ ExecBreak
    \/ ExecContinue
    \/ process_return
    \/ ExecSimple
    \/ ProgEnd
    \/ Propagate
    \/ LoopContinue
    \/ LoopBreak
    \/ LoopPropagate
    \/ CallReturn
    \/ CallPropagate
    \/ ProgCatch
    \/ ProgExit

Spec == Init /\ [][Next]_vars

\* the bounds cut no run of the programs
BoundsNotReached == InBounds

\* interpret_program(line) runs: one step of the engine
ReplStep == status = "running" /\ Next

NextRepl == run_repl \/ ReplInput \/ ReplStep

SpecRepl == InitRepl /\ [][NextRepl]_vars

-----------------------------------------------------------------------------
(* Observations on a run *)

\* the texts of the print statements of the programs
MarkerTexts ==
    {"o1", "in", "in2", "o2", "end", "fend", "after-call", "then", "h1", "h2", "h3", "body"}

IsMarker(r) == ~r.err /\ r.msg \in MarkerTexts

\* the texts printed so far, in order (nothing is printed in fast mode)
Prints == [i \in 1..Len(SelectSeq(out, IsMarker)) |-> SelectSeq(out, IsMarker)[i].msg]

Count(text) == Cardinality({i \in 1..Len(out) : ~out[i].err /\ out[i].msg = text})

Errors == {i \in 1..Len(out) : out[i].err}

\* interpret_program has returned
Finished == status = "done"

\* the value a name has in the live scope stack
Live(var_name) == get_variable(Self, var_name).val

\* s, once per run of the body of a construct of kind k
RECURSIVE Repeat(_, _)
Repeat(s, n) == IF n = 0 THEN <<>> ELSE s \o Repeat(s, n - 1)
Times(k, s) == IF k \in LoopKinds THEN Repeat(s, Iterations) ELSE s

NonLoopKinds == {"none", "if", "else"}

-----------------------------------------------------------------------------
(* Scope balance *)

\* C1: when interpret_program has finished, the scope stack has the depth it
\* had before the program started (one frame): every push_scope of an if, while
\* or for was matched by a pop_scope, whatever way the body was left.
C1_ScopeBalance == Finished => Len(scopes) = 1

-----------------------------------------------------------------------------
(* Closure snapshot *)

\* C2: f is defined while x = a and x is assigned b in the defining scope
\* afterwards; every call of f made after that assignment reads x = a (f
\* returns a, once per call written in the program) although the live x is b.
C2_ClosureSnapshot ==
    Finished =>
        \A kd \in DefKinds, kc \in CallKinds, a \in SnapValues, b \in SnapValues :
            prog = SnapProgram(kd, kc, a, b) =>
                /\ ret = Times(kc, <<IntV(a)>>)
                /\ Live("x") = IntV(b)

\* f was defined in an if body with x = 1, x became 2, and every call of f from
\* the for loop returned 1
C2_Witness ==
    /\ Finished
    /\ prog = SnapProgram("if", "for", 1, 2)
    /\ ret = Times("for", <<IntV(1)>>)
    /\ Live("x") = IntV(2)

-----------------------------------------------------------------------------
(* Break and continue *)

LoopNests(name) == {TopProgram(k1, k2, name) : k1 \in LoopKinds, k2 \in LoopKinds}

\* C3: in two nested loops (while in while, for in for, while in for, for in
\* while) a break in the inner body ends only the inner loop, so every outer
\* iteration prints o1, in, o2; a continue restarts only the inner loop, so
\* every outer iteration prints o1, then in once per inner iteration, then o2;
\* in2 is never printed.
C3_BreakContinueLocality ==
    Finished /\ ~fast =>
        /\ prog \in LoopNests("break") =>
               Prints = Repeat(<<"o1", "in", "o2">>, Iterations) \o <<"end">>
        /\ prog \in LoopNests("continue") =>
               Prints = Repeat(<<"o1">> \o Repeat(<<"in">>, Iterations) \o <<"o2">>,
                               Iterations) \o <<"end">>

-----------------------------------------------------------------------------
(* Function.call and the scope stack *)

\* the activation n of Function.call is on the stack now and gone after the step
CallFinishes(n) == stack[n].k = "call" /\ Len(stack') < n /\ status' # "exited"

\* C4: whenever an activation of Function.call finishes (the body completes,
\* a return, a break or continue or an error raised in the body), the scope
\* stack is then the stack that was current immediately before the call.
C4_ScopesRestored ==
    [][\A n \in 1..Len(stack) : CallFinishes(n) => scopes' = stack[n].old_scopes]_vars

-----------------------------------------------------------------------------
(* The builtins frame *)

UsesReset(p) == \E i \in 1..Len(p) : p[i].k = "reset"
AssignsBuiltin(p) == \E i \in 1..Len(p) : p[i].k = "assign" /\ p[i].x \in BuiltinNames

\* C5: after a program that neither invokes reset nor assigns to a builtin name,
\* frame 0 of the scope stack holds exactly the names and values it held right
\* after the construction of the interpreter.
C5_BuiltinsImmutable ==
    Finished /\ ~UsesReset(prog) /\ ~AssignsBuiltin(prog) => heap[scopes[1]] = BuiltinFrame

-----------------------------------------------------------------------------
(* Errors and control-flow signals at the top level *)

FailStmts == {"fail", "fail_dict"}

\* programs whose statement is a failing sort or a failing dict-add, at any nesting
FailPrograms == {TopProgram(k1, k2, name) : k1 \in Kinds, k2 \in Kinds, name \in FailStmts}

\* C6: when the handler of a simple statement fails (sorting a list that cannot
\* be ordered, adding a dict entry with an unhashable key), an error diagnostic
\* is emitted and the later lines are still executed: the line after the failing
\* statement prints in2 and the last line of the program prints end.
C6_ErrorRecovery ==
    Finished /\ ~fast /\ prog \in FailPrograms =>
        /\ Errors # {}
        /\ Count("in2") >= 1
        /\ Count("end") = 1

SignalStmts == {"break", "continue", "return_none", "return"}

\* programs whose break, continue or return has no loop and no call around it
StrayPrograms ==
    {TopProgram(k1, k2, name) : k1 \in NonLoopKinds, k2 \in NonLoopKinds, name \in SignalStmts}

\* C7: a break, continue or return with no enclosing loop or call is reported
\* as one error diagnostic and execution continues with the line that follows
\* it: in2, o2 and end are printed after o1 and in.
C7_StraySignal ==
    Finished /\ ~fast /\ prog \in StrayPrograms =>
        /\ Cardinality(Errors) = 1
        /\ Prints = <<"o1", "in", "in2", "o2", "end">>

\* programs that call f from a loop, where the body of f breaks or continues
\* outside every loop of the body
EscapePrograms ==
    {FuncProgram(k0, k1, k2, name) :
        k0 \in LoopKinds, k1 \in NonLoopKinds, k2 \in NonLoopKinds,
        name \in {"break", "continue"}}

\* C8: a break or continue in a function body outside every loop of the body is
\* an error at the call and never ends or restarts the loop of the caller
\* around the call: the caller continues after the call in every one of its
\* iterations (after-call is printed once per iteration), then the program
\* prints end.
C8_NoEscapeFromCall ==
    Finished /\ ~fast /\ prog \in EscapePrograms =>
        /\ Errors # {}
        /\ Count("after-call") = Iterations
        /\ Count("end") = 1

-----------------------------------------------------------------------------
(* Return *)

\* the value a call yields when the body ends by the statement
Yield(name) == IF name = "return" THEN IntV(5) ELSE NoneV

\* what the body of the nest prints before its return statement
Before == <<"o1", "in">>

\* C9: a return at any nesting depth of if/while/for in the body of f ends the
\* call at once (after o1 and in the body prints nothing more and no loop of the
\* body iterates again); the call yields the value of the return expression, or
\* null for a return without expression or a body that ends without return;
\* with nested calls (h calls g) the return in g ends only g, h goes on with
\* the statement after its call and returns its own value.
C9_ReturnSemantics ==
    Finished =>
        /\ \A k0 \in CallerKinds, k1 \in Kinds, k2 \in Kinds, name \in ReturnStmts :
              prog = FuncProgram(k0, k1, k2, name) =>
                  /\ ret = Times(k0, <<Yield(name)>>)
                  /\ ~fast /\ name # "none" =>
                         Prints = Times(k0, Before \o <<"after-call">>) \o <<"end">>
        /\ \A k1 \in Kinds, k2 \in Kinds, name \in ReturnStmts :
              prog = NestedCallProgram(k1, k2, name) =>
                  /\ ret = <<Yield(name), IntV(8)>>
                  /\ ~fast /\ name # "none" =>
                         Prints = <<"h1">> \o Before \o <<"h2", "after-call", "end">>

\* h called g, g returned 5 from a for loop inside a while loop, h printed h2
\* and returned 8, and the program went on after the call of h
C9_Witness ==
    /\ Finished /\ ~fast
    /\ prog = NestedCallProgram("while", "for", "return")
    /\ ret = <<IntV(5), IntV(8)>>
    /\ Prints = <<"h1", "o1", "in", "h2", "after-call", "end">>

-----------------------------------------------------------------------------
(* Arity *)

\* the value bound to the name of the function-call statement at hand
Callee == get_variable(Here, Line.f).val

\* execute_lines is at a call of a function with a wrong number of arguments
ArityMismatch ==
    /\ AtLine /\ Line.k = "func_call"
    /\ Callee.t = "func"
    /\ Len(Line.args) # Len(Callee.params)

\* C10: a call with a number of arguments different from the number of
\* parameters reports one error, yields null, executes no statement of the body
\* (execute_lines goes on with the line after the call), raises nothing, and
\* leaves the scope stack with its frames and their bindings unchanged.
C10_ArityMismatch ==
    [][ArityMismatch =>
          /\ scopes' = scopes /\ heap' = heap
          /\ sig' = NoSig /\ status' = status
          /\ ret' = Append(ret, NoneV)
          /\ stack' = Resume(0, Top.i + 1)
          /\ Len(out') = Len(out) + 1
          /\ SubSeq(out', 1, Len(out)) = out
          /\ out'[Len(out')].err]_vars

\* f(a) was called with two arguments in every iteration of a while loop: the
\* calls yielded null, the body never ran, the loop and the program went on
C10_Witness ==
    /\ Finished /\ ~fast
    /\ prog = ArityProgram(1, 2, "while")
    /\ ret = Times("while", <<NoneV>>)
    /\ Cardinality(Errors) = Iterations
    /\ Prints = Times("while", <<"after-call">>) \o <<"end">>

-----------------------------------------------------------------------------
(* Assignments in a function body *)

\* the frames of the stack that was current when the call n was made
CallerFrames(n) == {stack[n].old_scopes[i] : i \in 1..Len(stack[n].old_scopes)}

\* the step ends the call n by a return or by the end of the body
CallReturns(n) == Len(stack') < n /\ sig.t \in {"return", "none"}

\* the dict object that the step changes in place, None when it changes none
ChangedNow ==
    IF AtLine /\ Line.k = "dict_add"
    THEN Changed([heap |-> heap', scopes |-> scopes'], Line)
    ELSE NoneV

\* C11: while a call is active and when it returns, no frame of the caller's
\* scope stack changes (the assignments of the body go to the snapshot), and
\* the return installs the caller's stack again: every name of the caller is
\* bound to the value it had immediately before the call.  (A dict object
\* that the caller handed in as an argument is the caller's object: what the
\* body adds to it shows in the caller's frames, whose names stay bound to
\* the same objects.)
C11_CallerBindingsKept ==
    [][\A n \in 1..Len(stack) :
          stack[n].k = "call" =>
              /\ \A id \in CallerFrames(n) : heap'[id] = PutHeap(heap, ChangedNow)[id]
              /\ CallReturns(n) => scopes' = stack[n].old_scopes]_vars

\* f did x = x + 1 on the captured x = 1 in every iteration of a for loop and
\* returned 2, 3, ...; the program finished with the live x still 1
C11_Witness ==
    /\ Finished
    /\ prog = MutateProgram("for", "if")
    /\ ret = [i \in 1..Iterations |-> IntV(i + 1)]
    /\ Live("x") = IntV(1)

-----------------------------------------------------------------------------
(* Declare before use *)

\* the diagnostics the step appends
Added == SubSeq(out', Len(out) + 1, Len(out'))

\* the line at hand is an output statement or the assignment of a bare name
RefLine == AtLine /\ (Line.k = "output" \/ (Line.k = "assign" /\ Line.e.tree.k = "Name"))

Referenced == IF Line.k = "output" THEN Line.x ELSE Line.e.tree.id

NeverDeclared(x) == Holders(Here, x) = {}

NeverAssigned(x) == Holders(Here, x) # {} /\ get_variable(Here, x).val = NoneV

NotDeclaredMsgs(x) ==
    {"error: variable \"" \o x \o "\" is not declared",
     "error: expression evaluation failed - variable '" \o x \o "' is not declared"}

\* C12: a statement (output, or an assignment whose expression is a name) that
\* references a never declared name reports the not-declared error; one that
\* references a declared, never assigned name reports an error with another
\* message; in neither case is None printed as the value.
C12_DeclareBeforeUse ==
    [][RefLine /\ (NeverDeclared(Referenced) \/ NeverAssigned(Referenced)) =>
          /\ \E i \in 1..Len(Added) :
                 /\ Added[i].err
                 /\ NeverDeclared(Referenced) <=> Added[i].msg \in NotDeclaredMsgs(Referenced)
          /\ \A i \in 1..Len(Added) : Added[i].err \/ Added[i].msg # "None"]_vars

-----------------------------------------------------------------------------
(* The expression whitelist *)

\* the nodes directly under a node
Children(node) ==
    CASE node.k = "BinOp" -> {node.left, node.right}
      [] node.k = "UnaryOp" -> {node.operand}
      [] node.k = "BoolOp" -> {node.values[i] : i \in 1..Len(node.values)}
      [] node.k = "Compare" ->
            {node.left} \cup {node.comparators[i] : i \in 1..Len(node.comparators)}
      [] node.k = "List" -> {node.elts[i] : i \in 1..Len(node.elts)}
      [] node.k = "Dict" ->
            {node.keys[i] : i \in 1..Len(node.keys)}
            \cup {node.values[i] : i \in 1..Len(node.values)}
      [] node.k = "Call" -> {node.func}
      [] node.k = "Attribute" -> {node.value}
      [] OTHER -> {}

\* the expression contains call syntax or an attribute access, or is no
\* expression at all (an augmented assignment)
RECURSIVE Forbidden(_)
Forbidden(node) ==
    \/ node.k \in {"Call", "Attribute", "SyntaxError"}
    \/ \E c \in Children(node) : Forbidden(c)

\* C13: an assignment whose expression contains an attribute access, call
\* syntax or an augmented assignment reports an evaluation error and changes
\* no binding.
C13_Whitelist ==
    [][AtLine /\ Line.k = "assign" /\ Forbidden(Line.e.tree) =>
          /\ \E i \in 1..Len(Added) : Added[i].err
          /\ heap' = heap]_vars

-----------------------------------------------------------------------------
(* The AST cache *)

\* C14: whatever the cache holds, the expression of the assignment at hand
\* evaluates in the current environment to the outcome (value or error
\* diagnostic) that it has with an empty cache.
C14_CachePurity ==
    AtLine /\ Line.k = "assign" =>
        safe_eval(Line.e, get_combined_scope(Here), AST_CACHE).res
            = safe_eval(Line.e, get_combined_scope(Here), {}).res

-----------------------------------------------------------------------------
(* Comments and string literals *)

\* the quote mode after the first i characters of the text: a quote character
\* toggles its own mode only when the other mode is not active
RECURSIVE Mode(_, _)
Mode(text, i) ==
    IF i = 0 THEN "none"
    ELSE With(Mode(text, i - 1), LAMBDA m :
        IF text[i] = "'" /\ m # "double" THEN (IF m = "single" THEN "none" ELSE "single")
        ELSE IF text[i] = "\"" /\ m # "single" THEN (IF m = "double" THEN "none" ELSE "double")
        ELSE m)

\* the places of the # outside single-quoted and double-quoted text
Outside(text) == {i \in 1..Len(text) : text[i] = "#" /\ Mode(text, i - 1) = "none"}

\* the place where the comment starts, Len + 1 when there is none
CommentStart(text) ==
    IF Outside(text) = {} THEN Len(text) + 1
    ELSE CHOOSE i \in Outside(text) : \A j \in Outside(text) : i <= j

Hashes(text, n) == Cardinality({i \in 1..n : text[i] = "#"})

\* C15: remove_comments returns the line cut at the first # that lies outside
\* single-quoted and double-quoted text (stripped of the blanks at its ends),
\* and every # before that place, which lies inside a string literal, is kept.
C15_CommentCut ==
    cleaned.done =>
        /\ cleaned.text = Strip(SubSeq(raw_line, 1, CommentStart(raw_line) - 1))
        /\ Hashes(cleaned.text, Len(cleaned.text))
               = Hashes(raw_line, CommentStart(raw_line) - 1)

\* the line "#'"# : the first # is inside the double-quoted text and kept, the
\* single quote inside it is literal, the second # starts the comment
C15_Witness ==
    /\ raw_line = <<"\"", "#", "'", "\"", "#">>
    /\ cleaned = [done |-> TRUE, text |-> <<"\"", "#", "'", "\"">>]

-----------------------------------------------------------------------------
(* Resumption after a construct *)

\* the lines that only close or divide a construct
Closers == {"else", "end_if", "end_while", "end_for", "end_func"}

\* C16: in the programs whose only for loop over a non-iterable value has its
\* closer two lines below, no closer line is ever the statement at hand, and
\* the body line of that loop (print "body") is never executed.
C16_ResumeAfterConstruct ==
    prog \in MiscPrograms =>
        /\ AtLine => Line.k \notin Closers
        /\ Count("body") = 0

-----------------------------------------------------------------------------
(* Declaration and assignment *)

\* the step changes the frame id at most at the name x, which it binds to v
OnlyBinds(id, x, v) ==
    /\ DOMAIN heap' = DOMAIN heap
    /\ DOMAIN heap'[id] = DOMAIN heap[id] \cup {x}
    /\ heap'[id][x] = v
    /\ \A y \in DOMAIN heap[id] \ {x} : heap'[id][y] = heap[id][y]
    /\ \A other \in DOMAIN heap \ {id} : heap'[other] = heap[other]

Reported == \E i \in 1..Len(Added) : Added[i].err

\* C17: a declare statement binds the name to None in the topmost frame and
\* changes no other frame, also when an outer frame (of the user or of the
\* builtins) holds the name; when the topmost frame already holds the name an
\* error is reported and no frame changes.
C17_Declare ==
    [][AtLine /\ Line.k = "declare" =>
          /\ scopes' = scopes
          /\ IF Line.x \in DOMAIN heap[scopes[Len(scopes)]]
             THEN Reported /\ heap' = heap
             ELSE OnlyBinds(scopes[Len(scopes)], Line.x, NoneV)]_vars

\* inside the if: x and len are declared in the frame of the if (the second
\* declare of x was refused), the outer x is 1 and the builtin len is intact
C17_Witness ==
    /\ prog = ShadowProgram("if")
    /\ Len(scopes) = 2
    /\ {"x", "len"} \subseteq DOMAIN heap[scopes[2]]
    /\ heap[scopes[2]]["x"] = NoneV /\ heap[scopes[2]]["len"] = NoneV
    /\ heap[scopes[1]]["x"] = IntV(1) /\ heap[scopes[1]]["len"] = BuiltinV("len")
    /\ \E i \in Errors : out[i].msg = "error: variable \"x\" is already declared"

\* the frames of the stack that hold the name, by their place in the stack
HolderPlaces(x) == {i \in 1..Len(scopes) : x \in DOMAIN heap[scopes[i]]}

Innermost(x) == scopes[CHOOSE i \in HolderPlaces(x) : \A j \in HolderPlaces(x) : j <= i]

\* C18: an assignment statement whose expression evaluates to a value changes
\* the binding of the name in the innermost frame that holds it and nothing
\* else; when no frame holds the name, or when the expression fails to
\* evaluate, an error is reported and every frame is unchanged.
C18_Assign ==
    [][AtLine /\ Line.k = "assign" =>
          \E r \in {safe_eval(Line.e, get_combined_scope(Here), AST_CACHE).res} :
              /\ scopes' = scopes
              /\ ~r.ok => Reported /\ heap' = heap
              /\ r.ok /\ r.val # NoneV /\ HolderPlaces(Line.x) = {} =>
                     Reported /\ heap' = heap
              /\ r.ok /\ r.val # NoneV /\ HolderPlaces(Line.x) # {} =>
                     OnlyBinds(Innermost(Line.x), Line.x, StampVal(r.val, stamp).val)]_vars

\* inside the if: the inner x and the inner len were assigned, the outer x is
\* still 1 and the builtin len is intact
C18_Witness ==
    /\ prog = ShadowProgram("if")
    /\ Len(scopes) = 2
    /\ {"x", "len"} \subseteq DOMAIN heap[scopes[2]]
    /\ heap[scopes[2]]["x"] = IntV(2) /\ heap[scopes[2]]["len"] = IntV(3)
    /\ heap[scopes[1]]["x"] = IntV(1) /\ heap[scopes[1]]["len"] = BuiltinV("len")

-----------------------------------------------------------------------------
(* Reset and the bottom of the scope stack *)

\* C19: the step of a reset statement leaves a scope stack of exactly one
\* frame, and that frame holds the builtins with the values they had at
\* construction and nothing else.
C19_Reset ==
    [][AtLine /\ Line.k = "reset" =>
          /\ Len(scopes') = 1
          /\ heap'[scopes'[1]] = BuiltinFrame]_vars

\* the step calls pop_scope: a body of an if or of a loop ran to its end, or a
\* loop caught a break or a continue
Pops ==
    \/ AtEnd /\ Under.k \in {"if", "while", "for"}
    \/ Raising /\ Top.k \in {"while", "for"} /\ sig \in {BreakException, ContinueException}

\* C20: the scope stack holds at least one frame before and after every step
\* (reset and Function.call install no empty stack), and a pop_scope on a
\* one-frame stack reports an error and leaves the stack unchanged.
C20_GlobalScopeStays ==
    [][/\ Len(scopes) >= 1 /\ Len(scopes') >= 1
       /\ Pops /\ Len(scopes) = 1 => Reported /\ scopes' = scopes]_vars

\* the reset ran inside an if, whose pop_scope then found one frame and
\* reported it; the program went on to its end
C20_Witness ==
    /\ Finished
    /\ prog = MiscProgram("if")
    /\ Len(scopes) = 1
    /\ \E i \in Errors : out[i].msg = "error: the global scope cannot be removed"

-----------------------------------------------------------------------------
(* Dispatch of simple lines *)

\* the kinds of line that have an entry in single_commands
TableKinds ==
    {"print", "declare", "assign", "output", "delete_var", "list_sort", "dict_add",
     "reset", "exit", "save_vars"}

\* the handler of the entry that matches the line, applied to s
Handler(s, line) ==
    CASE line.k = "print" -> handle_print(s, line)
      [] line.k = "declare" -> handle_declare(s, line)
      [] line.k = "assign" -> handle_assign(s, line)
      [] line.k = "output" -> handle_output(s, line)
      [] line.k = "delete_var" -> handle_delete_var(s, line)
      [] line.k = "list_sort" -> handle_list_sort(s, line)
      [] line.k = "dict_add" -> handle_dict_add(s, line)
      [] line.k = "reset" -> handle_reset(s, line)
      [] line.k = "exit" -> handle_exit(s, line)
      [] line.k = "save_vars" -> handle_save_vars(s, line)

\* execution continues with the next line of the block
NextLine == sig' = NoSig /\ stack' = PutStack(Resume(0, Top.i + 1), ChangedNow)

UnknownCommand(line) ==
    [line |-> Top.i + 1, err |-> TRUE, msg |-> "error: unknown command - " \o LineText(line)]

\* C21: a line that matches an entry of the table has the effect of that
\* entry's handler applied once and of nothing else; a line that matches no
\* entry (and no pattern of execute_lines) gives exactly one unknown-command
\* error, changes no frame, and execution continues with the next line; a
\* blank or comment-only line emits nothing and changes nothing.
C21_Dispatch ==
    [][AtLine /\ Line.k \notin (EngineKinds \ {"blank"}) =>
          IF Line.k = "blank"
          THEN out' = out /\ heap' = heap /\ scopes' = scopes /\ NextLine
          ELSE IF Line.k \in TableKinds
          THEN \E r \in {Handler(Here, Line)} :
                   /\ out' = r.s.out /\ heap' = r.s.heap /\ scopes' = r.s.scopes
                   /\ sig' = r.exc
                   /\ r.exc = NoSig => NextLine
          ELSE /\ Added = <<UnknownCommand(Line)>>
               /\ heap' = heap /\ scopes' = scopes /\ NextLine]_vars

\* the program with the blank line, the line "hello" and the stray closer ran
\* to its end: one unknown-command error for "hello" at its line 20
C21_Witness ==
    /\ Finished
    /\ prog = MiscProgram("none")
    /\ Cardinality({i \in Errors : out[i].msg = "error: unknown command - hello"}) = 1
    /\ \E i \in Errors : out[i] = [line |-> 20, err |-> TRUE,
                                     msg |-> "error: unknown command - hello"]

-----------------------------------------------------------------------------
(* Constructs without their closer *)

\* the activations of constructs on the stack
ConstructDepth ==
    Cardinality({n \in 1..Len(stack) : stack[n].k \in {"if", "while", "for", "call"}})

\* the nesting of the marker lines in OpenProgram(k, kind)
OpenDepth(k) == IF k = "none" THEN 1 ELSE 2

\* C22: in a program whose last opener has no closer, the lines after the
\* opener are executed only as the body of that construct (never for a
\* function definition), and no diagnostic is emitted.
C22_MissingCloser ==
    \A k \in {"none", "if", "for"}, kind \in OpenKinds :
        prog = OpenProgram(k, kind) =>
            /\ AtLine /\ Line.k = "print" /\ Line.text \in {"in", "in2"} =>
                   kind # "func" /\ ConstructDepth = OpenDepth(k)
            /\ kind # "for_bad" => Errors = {}

-----------------------------------------------------------------------------
(* Line numbers of diagnostics *)

\* the lines of the program text that print the message
PrintedBy(msg) == {i \in 1..Len(prog) : prog[i].k = "print" /\ prog[i].text = msg}

\* C23: a printed message that one line only of the program text prints
\* carries the 1-based number of that line in the program text, wherever the
\* line stands (top level, body of an if, of a loop or of a function).
C23_LineNumbers ==
    \A n \in 1..Len(out) :
        ~out[n].err /\ Cardinality(PrintedBy(out[n].msg)) = 1 =>
            out[n].line \in PrintedBy(out[n].msg)

-----------------------------------------------------------------------------
(* Exit *)

\* C24: the step of an exit statement raises SystemExit with code 0; while it
\* is in flight every step only leaves one activation (no statement executes,
\* nothing is emitted, no handler takes it) until the interpreter has exited;
\* and nothing but an exit statement raises it or makes the interpreter exit.
C24_Exit ==
    [][/\ AtLine /\ Line.k = "exit" => sig' = SystemExit /\ sig'.code = 0
       /\ sig.t = "exit" =>
              /\ sig' = sig /\ Len(stack') = Len(stack) - 1
              /\ out' = out /\ heap' = heap /\ scopes' = scopes /\ ret' = ret
              /\ status' = IF stack' = <<>> THEN "exited" ELSE "running"
       /\ sig'.t = "exit" /\ sig.t # "exit" => AtLine /\ Line.k = "exit"
       /\ status' = "exited" => sig.t = "exit"]_vars

\* exit ran in an if in a while in the body of f, called from a for loop: the
\* interpreter exited during the first call, after "in" and before "in2"
C24_Witness ==
    /\ status = "exited"
    /\ prog = FuncProgram("for", "while", "if", "exit")
    /\ Prints = <<"o1", "in">>
    /\ ret = <<>>

-----------------------------------------------------------------------------
(* Saving the variables *)

\* the names bound by the user: every visible name but the builtins as
\* Interpreter.__init__ bound them
UserDeclared ==
    {n \in DOMAIN get_combined_scope(Self) :
        n \notin BuiltinNames \/ get_combined_scope(Self)[n] # BuiltinV(n)}

\* C25: the save statement writes to its file the mapping of every name the
\* user has declared, at top level or in the frame of a construct, to the
\* value of its innermost binding, and of no builtin.
C25_Save ==
    [][AtLine /\ Line.k = "save_vars" /\ Writable(Line.filename) =>
          files'[Line.filename]
              = [n \in UserDeclared |-> json_dump(get_combined_scope(Self)[n])]]_vars

-----------------------------------------------------------------------------
(* The REPL *)

\* run_repl is over: it returned, or an exception left it
ReplOver == status \in {"ended", "exited", "crashed"}

\* C26: the REPL is over only by a step that reads an interrupt or a line
\* whose trimmed text is one of the three quit words.
C26_ReplEnds ==
    [][ReplOver' /\ ~ReplOver =>
          /\ status \in {"prompt", "done"}
          /\ stdin # <<>>
          /\ Head(stdin).t = "interrupt" \/ Quits(Head(stdin).text)]_vars

\* C27: each invocation enters exactly one mode, by the priority --test, then
\* a given file name, then --repl or a TTY stdin, then the default program; a
\* given file name that does not end in .noh yields one error and nothing of
\* the file runs.
C27_Dispatch ==
    status # "main" =>
        /\ status = IF argv.test THEN "run_tests"
                    ELSE IF argv.filename.given
                         THEN IF endswith_noh(argv.filename) THEN "run_noh_file" ELSE "return"
                         ELSE IF argv.repl \/ argv.isatty THEN "run_repl"
                              ELSE "interpret_program"
        /\ ~argv.test /\ argv.filename.given /\ ~endswith_noh(argv.filename) =>
              /\ Len(out) = 1 /\ out[1].err
              /\ prog = <<>> /\ stack = <<>>

\* the number of lines of the kind among lines[a..b]
KindCount(lines, a, b, kind) == Cardinality({n \in a..b : lines[n].k = kind})

\* line j is a closer that balances the openers of lines[p+1..j-1]
Balances(lines, p, j, opener, closer) ==
    /\ lines[j].k = closer
    /\ KindCount(lines, p + 1, j - 1, opener) = KindCount(lines, p + 1, j - 1, closer)

\* the closer that matches the opener at line p: the first one that balances
\* (the empty set when the construct is not closed)
Matching(lines, p, opener, closer) ==
    {j \in p + 1..Len(lines) :
        /\ Balances(lines, p, j, opener, closer)
        /\ \A m \in p + 1..j - 1 : ~Balances(lines, p, m, opener, closer)}

\* the engine is at an opener of the kind whose construct is closed
AtClosed(opener, closer) ==
    /\ AtLine /\ Line.k = opener
    /\ Matching(Top.lines, Top.i + 1, opener, closer) # {}

\* C28: the body that process_for extracts for a closed for loop is the lines
\* from its opener to the end-for that matches it, nested for loops with their
\* closers included, and the loop resumes after that end-for.
C28_ForBody ==
    [][AtClosed("for", "end_for") /\ Len(stack') = Len(stack) + 1 =>
          \A j \in Matching(Top.lines, Top.i + 1, "for", "end_for") :
              /\ stack'[Len(stack')].block = SubSeq(Top.lines, Top.i + 2, j - 1)
              /\ stack'[Len(stack')].next = j]_vars

\* the else lines at nesting depth 0 of the if at line p that line j closes
OuterElses(lines, p, j) ==
    {m \in p + 1..j - 1 :
        /\ lines[m].k = "else"
        /\ KindCount(lines, p + 1, m - 1, "if") = KindCount(lines, p + 1, m - 1, "end_if")}

\* the line that ends the then-body: the first else at depth 0, or the closer
ThenEnd(lines, p, j) ==
    IF OuterElses(lines, p, j) = {} THEN j
    ELSE CHOOSE m \in OuterElses(lines, p, j) : \A n \in OuterElses(lines, p, j) : m <= n

ThenBody(lines, p, j) == SubSeq(lines, p + 1, ThenEnd(lines, p, j) - 1)
ElseBody(lines, p, j) ==
    IF OuterElses(lines, p, j) = {} THEN <<>>
    ELSE SubSeq(lines, ThenEnd(lines, p, j) + 1, j - 1)

\* C29: for a closed if, process_if runs exactly one block: the lines from the
\* opener to the first else at depth 0 (or to the matching end-if) when the
\* guard is truthy, the lines from that else to the matching end-if (none
\* without an else) otherwise; nested ifs stay whole in their branch, and the
\* construct resumes after the matching end-if.
C29_IfBlocks ==
    [][AtClosed("if", "end_if") =>
          \A j \in Matching(Top.lines, Top.i + 1, "if", "end_if") :
              /\ Len(stack') = Len(stack) + 2
              /\ stack'[Len(stack) + 1] = IfFrame(j)
              /\ stack'[Len(stack) + 2] =
                    ExecFrame(IF Truthy(evaluate_expression(Here, Line.e).val)
                              THEN ThenBody(Top.lines, Top.i + 1, j)
                              ELSE ElseBody(Top.lines, Top.i + 1, j), 0)]_vars

\* process_if has just chosen the else-body of an if whose then-body holds a
\* nested if with its own else, and the else-body holds another
C29_Witness ==
    /\ Running /\ Len(stack) = 4 /\ Top.k = "exec" /\ Top.i = 0 /\ Under.k = "if"
    /\ prog \in BlockPrograms
    /\ Len(Top.lines) = 7
    /\ Top.lines[1].k = "print" /\ Top.lines[1].text = "e1"
    /\ Top.lines[2].k = "if" /\ Top.lines[4].k = "else" /\ Top.lines[6].k = "end_if"

\* C30: for a closed while loop, process_while extracts the lines from the
\* opener to the end-while that balances the while openers met since, and
\* resumes after it; for a closed definition, process_func_def stores the
\* lines from the opener to the end-function that balances the definition
\* openers met since, and goes on after it; nested loops and definitions are
\* whole in the outer body.
C30_WhileAndFuncBodies ==
    [][/\ AtClosed("while", "end_while") =>
            \A j \in Matching(Top.lines, Top.i + 1, "while", "end_while") :
                /\ Len(stack') = Len(stack) + 1
                /\ stack'[Len(stack')] =
                      WhileFrame(Line.e, SubSeq(Top.lines, Top.i + 2, j - 1), j)
       /\ AtClosed("func_def", "end_func") =>
            \A j \in Matching(Top.lines, Top.i + 1, "func_def", "end_func") :
                /\ Len(stack') = Len(stack)
                /\ stack'[Len(stack')].i = j
                /\ Line.f \in DOMAIN heap'[current_scope(Self')]
                /\ heap'[current_scope(Self')][Line.f].t = "func"
                /\ heap'[current_scope(Self')][Line.f].block =
                      SubSeq(Top.lines, Top.i + 2, j - 1)]_vars

\* process_while has just extracted the body of a while loop that holds a
\* whole nested while loop, and f is bound to a function whose body holds the
\* whole definition of g
C30_Witness ==
    /\ Running /\ Top.k = "while" /\ Len(stack) = 3
    /\ \E a, b \in DOMAIN Top.block :
          a < b /\ Top.block[a].k = "while" /\ Top.block[b].k = "end_while"
    /\ Top.block[Len(Top.block)].k = "print"
    /\ "f" \in DOMAIN heap[current_scope(Self)]
    /\ heap[current_scope(Self)]["f"].t = "func"
    /\ \E a, b \in DOMAIN heap[current_scope(Self)]["f"].block :
          /\ a < b
          /\ heap[current_scope(Self)]["f"].block[a].k = "func_def"
          /\ heap[current_scope(Self)]["f"].block[b].k = "end_func"
          /\ b < Len(heap[current_scope(Self)]["f"].block)

-----------------------------------------------------------------------------
(* The loops *)

\* the texts among `texts` that were printed so far, in order
Shown(texts) ==
    [i \in 1..Len(SelectSeq(out, LAMBDA r : ~r.err /\ r.msg \in texts)) |->
        SelectSeq(out, LAMBDA r : ~r.err /\ r.msg \in texts)[i].msg]

\* what the while programs can print
WhileTexts == {"13", "12", "10", "9", "7", "6", "4", "3", "1", "0", "-2", "in2", "end"}

\* the step starts a run of the body of the loop on top of the stack
BodyStarts(kind) ==
    /\ Running /\ Top.k = kind
    /\ Len(stack') = Len(stack) + 1
    /\ stack'[Len(stack')] = ExecFrame(Top.block, 0)

\* the loop on top of the stack takes the signal
LoopTakes(kind, signal) == Raising /\ Top.k = kind /\ sig = signal

\* the statement of scenario C as it is written: 12, 9, 6, 4 are printed
C31_ScenarioC ==
    Finished /\ ~fast /\ prog = ScenarioC(15) => Shown(WhileTexts) = <<"12", "9", "6", "4">>

\* C31: every run of the body of a while loop starts from the loop head with
\* the guard truthy in the environment of that moment (assignments of the
\* body included); a continue leads back to the loop head, where the guard is
\* evaluated; a break that reaches the loop from a nested if removes the loop
\* and resumes after its closer with nothing run in between.  Started at
\* x = 15 the loop of scenario C prints 12, 9, 6, 3, 0 (x is never 4); started
\* at x = 16 it prints 13, 10, 7, 4 and the break ends it.
C31_WhileLoop ==
    [][/\ BodyStarts("while") => Truthy(evaluate_expression(Self, Top.condition_expr).val)
       /\ LoopTakes("while", ContinueException) =>
             stack' = stack /\ sig' = NoSig /\ out' = out
       /\ LoopTakes("while", BreakException) =>
             stack' = Resume(1, Top.next) /\ sig' = NoSig
       /\ Raising /\ sig = BreakException => \A i \in 1..Len(Added) : Added[i].err
       /\ Finished' /\ ~fast =>
             /\ prog = ScenarioC(15) => Shown(WhileTexts)' = <<"12", "9", "6", "3", "0">>
             /\ prog = ScenarioC(16) => Shown(WhileTexts)' = <<"13", "10", "7", "4">>
             /\ prog = WhileProgram(16, BreakL) =>
                   Shown(WhileTexts)' = <<"13", "in2", "10", "in2", "7", "in2", "4", "end">>
             /\ prog = WhileProgram(16, ContinueL) =>
                   Shown(WhileTexts)' = <<"13", "in2", "10", "in2", "7", "in2", "4",
                                          "1", "in2", "-2", "in2", "end">>]_vars

\* the break in the if ended the loop of WhileProgram at x = 4: the statement
\* after the if did not run for 4 and the guard was not evaluated again
C31_Witness ==
    /\ Finished /\ ~fast
    /\ prog = WhileProgram(16, BreakL)
    /\ Live("x") = IntV(4)
    /\ Shown({"4", "in2", "end"}) = <<"in2", "in2", "in2", "4", "end">>

-----------------------------------------------------------------------------
(* Expression evaluation *)

\* the expressions that a line hands to evaluate_expression
ExprsOf(l) ==
    CASE l.k \in {"if", "while", "for", "assign"} -> {l.e}
      [] l.k = "return" -> IF l.has THEN {l.e} ELSE {}
      [] l.k = "func_call" -> {l.args[i] : i \in 1..Len(l.args)}
      [] l.k = "dict_add" -> {l.key, l.value}
      [] OTHER -> {}

\* the expressions of the program
ProgExprs == UNION {ExprsOf(prog[i]) : i \in 1..Len(prog)}

\* C33: in every state, for every expression of the program, the interpreter
\* that evaluate_expression leaves has the same scope stack and the same
\* frames (names and values) as before, whether a value or an error results.
C33_EvaluationKeepsEnvironment ==
    \A e \in ProgExprs :
        /\ evaluate_expression(Self, e).s.heap = heap
        /\ evaluate_expression(Self, e).s.scopes = scopes

\* inside a construct, with user variables bound, one expression of the
\* program evaluates to a value and another one reports an error
C33_Witness ==
    /\ Running /\ Len(scopes) > 1
    /\ \E n \in DOMAIN heap[scopes[1]] : heap[scopes[1]][n].t = "int"
    /\ \E e \in ProgExprs :
          /\ evaluate_expression(Self, e).val # NoneV
          /\ evaluate_expression(Self, e).s.out = out
    /\ \E e \in ProgExprs :
          /\ evaluate_expression(Self, e).val = NoneV
          /\ Len(evaluate_expression(Self, e).s.out) = Len(out) + 1

\* the evaluation of the guard fails in s: an error is reported, None results
GuardFails(s, e) ==
    /\ evaluate_expression(s, e).val = NoneV
    /\ Len(evaluate_expression(s, e).s.out) = Len(s.out) + 1

\* the step reports exactly one diagnostic, an error
OneError == Len(Added) = 1 /\ Added[1].err

\* C34: a guard that fails to evaluate counts as false once its error is
\* reported: process_if runs the else-body of a closed if (nothing when there
\* is no else) and resumes after the matching end-if; process_while starts no
\* further run of the body and resumes after the closer.
C34_FailedGuard ==
    [][/\ AtClosed("if", "end_if") /\ GuardFails(Here, Line.e) =>
             \A j \in Matching(Top.lines, Top.i + 1, "if", "end_if") :
                 /\ OneError
                 /\ stack'[Len(stack) + 1] = IfFrame(j)
                 /\ stack'[Len(stack) + 2] = ExecFrame(ElseBody(Top.lines, Top.i + 1, j), 0)
       /\ Running /\ Top.k = "while" /\ GuardFails(Self, Top.condition_expr) =>
             /\ OneError
             /\ stack' = Resume(1, Top.next)
             /\ scopes' = scopes]_vars

\* the guards of the if and of both while loops of GuardProgram failed: the
\* else-body ran, the first loop never ran its body, the second ran it once,
\* and the program went on after each closer
C34_Witness ==
    /\ Finished /\ ~fast
    /\ prog \in GuardPrograms
    /\ Prints = <<"o1", "o2", "in", "end">>
    /\ Shown({"then", "else", "body"}) = <<"else">>
    /\ Cardinality(Errors) = 3

-----------------------------------------------------------------------------
(* The frames of a call *)

\* the step enters the body of the function that the call statement names
Enters ==
    /\ AtLine /\ Line.k = "func_call"
    /\ Len(stack') = Len(stack) + 2
    /\ stack'[Len(stack) + 1].k = "call"

\* the function that the step calls
Called == stack'[Len(stack) + 1].func_obj

\* C35: every call of a function value runs on the frames of its snapshot
\* themselves, under one parameter frame that did not exist before the call;
\* entering changes no frame, and leaving the call (by return or at the end
\* of the body) changes no frame either, so what the body assigned to a
\* captured variable is there at the next call: a body doing x = x + 1 on a
\* captured x = 1 yields 2, 3, ... in successive calls.
C35_SnapshotShared ==
    [][/\ Enters =>
             /\ scopes' = Called.closure \o <<Len(heap) + 1>>
             /\ Len(heap') = Len(heap) + 1
             /\ \A id \in 1..Len(heap) : heap'[id] = heap[id]
             /\ DOMAIN heap'[Len(heap) + 1] =
                   {Called.params[i] : i \in 1..Len(Called.params)}
       /\ \A n \in 1..Len(stack) :
             stack[n].k = "call" /\ CallReturns(n) => heap' = heap
       /\ Finished' =>
             \A kb \in NonLoopKinds :
                 prog = MutateProgram("for", kb) \/ prog = MutateProgram("while", kb) =>
                     ret' = [i \in 1..Iterations |-> IntV(i + 1)]]_vars

\* the second call of f has just been entered: its parameter frame is new,
\* and the captured x, which the first call left at 2, is read from the same
\* snapshot frame
C35_Witness ==
    /\ Running /\ prog = MutateProgram("while", "none")
    /\ Len(ret) = 1 /\ ret[1] = IntV(2)
    /\ Len(stack) >= 2 /\ Under.k = "call" /\ Top.k = "exec" /\ Top.i = 0
    /\ Live("x") = IntV(2)
    /\ heap[current_scope(Self)] = EmptyFrame

\* the error that process_func_call reports for a name that is no function
NotAFunction(func_name) ==
    [line |-> Top.i + 1, err |-> TRUE,
     msg |-> "error: \"" \o func_name \o "\" is not a function"]

\* the function value that the definition at the current line has just bound
Defined == heap'[current_scope(Self)][Line.f]

\* what the programs whose function calls itself print
RecTexts == {"body", "fend", "end"}

\* C36: process_func_def takes the snapshot before it binds the name, so a
\* name that no frame held before the definition is held by no frame of the
\* closure; a call statement whose name resolves to no function reports
\* that the name is not a function and resumes at the next line without
\* entering a body; hence the body of f that calls f runs once per outer
\* call, and twice when an earlier f was visible at the definition.
C36_OwnNameNotInClosure ==
    [][/\ AtLine /\ Line.k = "func_def" /\ Holders(Here, Line.f) = {} =>
              /\ Defined.t = "func"
              /\ \A i \in 1..Len(Defined.closure) :
                     Line.f \notin DOMAIN heap'[Defined.closure[i]]
       /\ AtLine /\ Line.k = "func_call" /\ get_variable(Here, Line.f).val.t # "func" =>
              /\ Len(Added) >= 1 /\ Added[Len(Added)] = NotAFunction(Line.f)
              /\ stack' = Resume(0, Top.i + 1)
              /\ ret' = ret /\ scopes' = scopes
       /\ Finished' /\ ~fast' =>
              \A kc \in CallKinds :
                  /\ prog = RecProgram(kc, FALSE) =>
                         Shown(RecTexts)' = Times(kc, <<"body", "fend">>) \o <<"end">>
                  /\ prog = RecProgram(kc, TRUE) =>
                         Shown(RecTexts)' =
                             Times(kc, <<"body", "body", "fend", "fend">>) \o <<"end">>]_vars

\* the call of f in the body of f was refused, and the body goes on
C36_Witness ==
    /\ Running /\ prog = RecProgram("none", FALSE)
    /\ Len(stack) >= 2 /\ Under.k = "call" /\ Top.k = "exec" /\ Top.i = 2
    /\ Shown(RecTexts) = <<"body">>
    /\ \E i \in Errors : out[i].msg = "error: \"f\" is not a function"

-----------------------------------------------------------------------------
(* The arguments of a call *)

\* the positions of the arguments of the call at the current line that fail
\* to evaluate, in increasing order
Failing ==
    SelectSeq([i \in 1..Len(Line.args) |-> i], LAMBDA i : GuardFails(Here, Line.args[i]))

\* the error that the evaluation of the i-th argument reports
ArgError(i) ==
    With(evaluate_expression(Here, Line.args[i]).s.out, LAMBDA o : o[Len(o)])

\* the picture of an argument in the output of the callee
ArgText(a) == IF a = Expr(IntC(7)) THEN "7" ELSE "None"

\* C37: a call statement first reports the errors of its failing arguments,
\* in the order of the arguments; only then is the name resolved.  When the
\* name resolves to a function with as many parameters as there are
\* arguments, the body is entered with each parameter bound to the value of
\* its argument, None for an argument that failed; otherwise no body is
\* entered and the errors of the resolution follow those of the arguments.
C37_ArgumentsFirst ==
    [][/\ AtLine /\ Line.k = "func_call" =>
              /\ Len(Added) >= Len(Failing)
              /\ \A j \in 1..Len(Failing) : Added[j] = ArgError(Failing[j])
              /\ IF /\ get_variable(Here, Line.f).val.t = "func"
                    /\ Len(get_variable(Here, Line.f).val.params) = Len(Line.args)
                 THEN /\ Enters
                      /\ \A j \in (Len(Failing) + 1)..Len(Added) : ~Added[j].err
                      /\ \A i \in 1..Len(Line.args) :
                             heap'[Len(heap) + 1][Called.params[i]] =
                                 IF GuardFails(Here, Line.args[i]) THEN NoneV
                                 ELSE evaluate_expression(Here, Line.args[i]).val
                 ELSE /\ ~Enters
                      /\ Len(Added) > Len(Failing)
                      /\ \A j \in (Len(Failing) + 1)..Len(Added) : Added[j].err
                      /\ stack' = Resume(0, Top.i + 1)
       /\ Finished' /\ ~fast' =>
              \A a1 \in Arguments, a2 \in Arguments :
                  /\ prog = ArgProgram(a1, a2, "f") =>
                         Shown({"7", "None", "end"})' = <<ArgText(a1), ArgText(a2), "end">>
                  /\ \A func_name \in Callees \ {"f"} :
                         prog = ArgProgram(a1, a2, func_name) =>
                             Shown({"7", "None", "end"})' = <<"end">>]_vars

\* f(z, 1 +) has reported both arguments, in that order, and the body of f
\* runs with a and b bound to None
C37_Witness ==
    /\ Running /\ prog = ArgProgram(Expr(Name("z")), Expr(NoParse), "f")
    /\ Len(stack) >= 2 /\ Under.k = "call" /\ Top.k = "exec" /\ Top.i = 0
    /\ Cardinality(Errors) = 2
    /\ \A i \in Errors : \A j \in Errors : i < j =>
           out[i].msg # out[j].msg
    /\ heap[current_scope(Self)] = [p \in {"a", "b"} |-> NoneV]

-----------------------------------------------------------------------------
(* Cleaning a cleaned line *)

\* C38: remove_comments is idempotent: the cleaned line, cleaned again (as
\* execute_lines does with the lines of an extracted block, once per
\* enclosing construct), is the cleaned line.
C38_Idempotent ==
    cleaned.done =>
        /\ remove_comments(cleaned.text) = cleaned.text
        /\ remove_comments(remove_comments(cleaned.text)) = cleaned.text

\* a line with a quoted # and a comment: the first cleaning changed it
C38_Witness ==
    /\ cleaned.done
    /\ raw_line = <<"'", "#", "'", " ", "#">>
    /\ cleaned.text = <<"'", "#", "'">>

-----------------------------------------------------------------------------
(* The for loop *)

\* what the for loop of run_tests can print
ForTexts == {"1", "2", "3", "4", "unreached"}

\* C32: process_for evaluates the iterable when it enters the loop and not
\* again; at the loop head the body starts for the next element of that
\* value, bound to the iteration variable in a fresh frame, as long as an
\* element is left, and the loop resumes after its closer when none is; a
\* continue leads back to the loop head with the frame of the element gone,
\* so every element is visited (the loop over [1, 2, 3] prints 1, 2, 3 and
\* never the statement after the continue).
C32_ForLoop ==
    [][/\ AtLine /\ Line.k = "for" /\ Len(stack') = Len(stack) + 1 =>
              stack'[Len(stack')].items = ItemsOf(evaluate_expression(Here, Line.e).val)
       /\ Running /\ Top.k = "for" =>
              /\ sig' = NoSig /\ out' = out /\ AST_CACHE' = AST_CACHE
              /\ IF Top.items = <<>>
                 THEN stack' = Resume(1, Top.next) /\ scopes' = scopes
                 ELSE /\ BodyStarts("for")
                      /\ stack'[Len(stack)].items = Tail(Top.items)
                      /\ scopes' = scopes \o <<Len(heap) + 1>>
                      /\ heap'[Len(heap) + 1] = [n \in {Top.iter_var} |-> Top.items[1]]
       /\ LoopTakes("for", ContinueException) =>
              /\ stack' = stack /\ sig' = NoSig
              /\ scopes' = SubSeq(scopes, 1, Len(scopes) - 1)
       /\ Finished' /\ ~fast' /\ prog = ScenarioD(3) =>
              Shown(ForTexts)' = <<"1", "2", "3">>]_vars

====
